---- MODULE Spec2Model ----
(***************************************************************************)
(* Model of crush-core: the container format, the plugin registry, the     *)
(* compress / decompress / inspect pipeline and the timeout executor.      *)
(*                                                                         *)
(* Three specifications share the module:                                  *)
(*   Spec      the pipeline over concrete byte sequences (registry,        *)
(*             compress, compress_with_options, decompress, inspect);      *)
(*   ExecSpec  one run of the executor (run_with_timeout_v2) as two        *)
(*             threads, caller and worker, with the scheduling fairness;   *)
(*   RegSpec   the registry and the selector for every small list of       *)
(*             statically linked plugins, init running step by step under  *)
(*             the write lock while other threads read.                    *)
(***************************************************************************)
EXTENDS Integers, Sequences, FiniteSets, TLC

VARIABLES
    registry,     \* PLUGIN_REGISTRY: RwLock<Option<PluginRegistry>>
    src,          \* input and metadata of the compress call that produced blob
    blob,         \* the container in hand (output of the last compress, maybe corrupted)
    flip,         \* 0, or the 1-based bit position that was flipped in blob
    last,         \* outcome of the last pipeline operation
    run,          \* executor: the caller side of one run
    worker,       \* executor: the worker thread of that run
    cancel_flag,  \* executor: the Arc<AtomicBool> shared by worker, guard and operation
    chan,         \* executor: the crossbeam bounded(1) channel
    token,        \* the caller's CancellationToken (AtomicCancellationToken.cancelled)
    algorithms,   \* COMPRESSION_ALGORITHMS as linked: descriptors in enumeration order
    writer,       \* registry: the thread inside init_plugins and how far it has got
    seen,         \* registry: the client's last call: its result, what the registry
                  \* listed then, and the contents at the release before it
    hist,         \* registry: contents at the last release of the write lock, and
                  \* after the first successful init
    tokenCancelled, \* cancellation token: AtomicCancellationToken.cancelled
    calls,        \* cancellation token: the calls made on it so far, with results
    tracker,      \* resource tracker: output_path, temp_files, is_complete, and
                  \* whether it was dropped
    files         \* resource tracker: the paths that exist, those that cannot be
                  \* removed, and the paths that existed at the drop

pipeVars == <<src, blob, flip, last>>
cancelVars == <<tokenCancelled, calls, tracker, files>>
execVars == <<run, worker, cancel_flag, chan, token>>
regVars == <<algorithms, writer, seen, hist>>
vars == <<registry, src, blob, flip, last, run, worker, cancel_flag, chan, token,
          algorithms, writer, seen, hist, tokenCancelled, calls, tracker, files>>

----------------------------------------------------------------------------
(* Bounds *)

MaxLen == 1                 \* longest input handed to compress
ByteVals == {0, 255}        \* byte values the inputs are drawn from
MaxChunks == 2              \* most 64KB chunks an operation works through
MaxStatics == 3             \* most accepted plugins linked into the distributed slice

----------------------------------------------------------------------------
(* Bytes and fixed-width integers *)

RECURSIVE XorByte(_, _)
XorByte(a, b) ==
    IF a = 0 THEN b
    ELSE IF b = 0 THEN a
    ELSE ((a + b) % 2) + 2 * XorByte(a \div 2, b \div 2)

RECURSIVE AndByte(_, _)
AndByte(a, b) ==
    IF a = 0 \/ b = 0 THEN 0
    ELSE ((a % 2) * (b % 2)) + 2 * AndByte(a \div 2, b \div 2)

OrByte(a, b) == a + b - AndByte(a, b)

\* u16 / u32 / u64 little-endian encodings of a small natural
U16LE(n) == <<n % 256, (n \div 256) % 256>>
U32LE(n) == <<n % 256, (n \div 256) % 256, (n \div 65536) % 256, (n \div 16777216) % 256>>
U64LE(n) == U32LE(n) \o <<0, 0, 0, 0>>

\* i64::to_le_bytes of a small (32-bit) signed value: two's complement
I64LE(n) ==
    LET ext == IF n < 0 THEN 255 ELSE 0
    IN  <<n % 256, (n \div 256) % 256, (n \div 65536) % 256, (n \div 16777216) % 256,
          ext, ext, ext, ext>>

\* u16::from_le_bytes
FromU16LE(b) == b[1] + 256 * b[2]

\* all sequences over S of length at most n
RECURSIVE SeqsUpTo(_, _)
SeqsUpTo(S, n) ==
    IF n = 0 THEN {<<>>}
    ELSE LET shorter == SeqsUpTo(S, n - 1)
         IN  shorter \cup {Append(s, x) : s \in {t \in shorter : Len(t) = n - 1}, x \in S}

Inputs == SeqsUpTo(ByteVals, MaxLen)

\* the bytes of s from 1-based position i to the end
Tail_(s, i) == SubSeq(s, i, Len(s))

----------------------------------------------------------------------------
(* CRC-32 (IEEE 802.3, reflected, polynomial 0xEDB88320) as crc32fast      *)
(* computes it; a u32 is kept as its four little-endian bytes.             *)

Xor32(a, b) ==
    <<XorByte(a[1], b[1]), XorByte(a[2], b[2]), XorByte(a[3], b[3]), XorByte(a[4], b[4])>>

CRC_POLY == <<32, 131, 184, 237>>
CRC_ONES == <<255, 255, 255, 255>>

ShiftRight1(c) ==
    <<(c[1] \div 2) + 128 * (c[2] % 2), (c[2] \div 2) + 128 * (c[3] % 2),
      (c[3] \div 2) + 128 * (c[4] % 2), c[4] \div 2>>

CrcStep(c) == IF c[1] % 2 = 1 THEN Xor32(ShiftRight1(c), CRC_POLY) ELSE ShiftRight1(c)

CrcTableEntry(n) ==
    CrcStep(CrcStep(CrcStep(CrcStep(CrcStep(CrcStep(CrcStep(CrcStep(<<n, 0, 0, 0>>))))))))

RECURSIVE BuildTable(_, _)
BuildTable(lo, hi) ==
    IF lo = hi THEN <<CrcTableEntry(lo)>>
    ELSE BuildTable(lo, (lo + hi) \div 2) \o BuildTable(((lo + hi) \div 2) + 1, hi)

CRC_TABLE == BuildTable(0, 255)

RECURSIVE CrcUpdate(_, _, _)
CrcUpdate(c, bytes, k) ==
    IF k > Len(bytes) THEN c
    ELSE LET n == Xor32(CRC_TABLE[XorByte(c[1], bytes[k]) + 1], <<c[2], c[3], c[4], 0>>)
         IN  IF n[1] >= 0 THEN CrcUpdate(n, bytes, k + 1) ELSE n

\* Hasher::new(); hasher.update(bytes); hasher.finalize().to_le_bytes()
Crc32(bytes) == Xor32(CrcUpdate(CRC_ONES, bytes, 1), CRC_ONES)

----------------------------------------------------------------------------
(* Results: Ok(value) or Err(kind) *)

Ok(v) == [ok |-> TRUE, err |-> "", val |-> v]
Err(e) == [ok |-> FALSE, err |-> e, val |-> <<>>]
\* an error that carries a message (the String of InvalidHeader)
ErrMsg(e, msg) == [ok |-> FALSE, err |-> e, val |-> <<>>, msg |-> msg]

----------------------------------------------------------------------------
(* Container header (CrushHeader) *)

SIZE == 16
MAGIC_PREFIX == <<67, 82>>
VERSION == 1
HAS_CRC32 == 1
HAS_METADATA == 2

\* CrushHeader::new
NewHeader(magic, original_size) ==
    [magic |-> magic, original_size |-> U64LE(original_size), flags |-> 0,
     reserved |-> <<0, 0, 0>>]

with_crc32(h) == [h EXCEPT !.flags = OrByte(h.flags, HAS_CRC32)]
with_metadata(h) == [h EXCEPT !.flags = OrByte(h.flags, HAS_METADATA)]
\* the checksum flag tested with the metadata mask
has_crc32_WrongMask(h) == AndByte(h.flags, HAS_METADATA) # 0
has_crc32(h) == AndByte(h.flags, HAS_CRC32) # 0
has_metadata(h) == AndByte(h.flags, HAS_METADATA) # 0
has_valid_prefix(h) == h.magic[1] = MAGIC_PREFIX[1] /\ h.magic[2] = MAGIC_PREFIX[2]
has_valid_version(h) == h.magic[3] = VERSION

\* CrushHeader::to_bytes
to_bytes(h) == h.magic \o h.original_size \o <<h.flags>> \o h.reserved

\* a decoder that looks at the version byte before the prefix
from_bytes_VersionFirst(b) ==
    LET h == [magic |-> SubSeq(b, 1, 4), original_size |-> SubSeq(b, 5, 12),
              flags |-> b[13], reserved |-> SubSeq(b, 14, 16)]
    IN  IF ~has_valid_version(h) THEN ErrMsg("InvalidHeader", "Unsupported version")
        ELSE IF ~has_valid_prefix(h) THEN Err("InvalidMagic")
        ELSE Ok(h)
\* CrushHeader::from_bytes on exactly SIZE bytes
from_bytes(b) ==
    LET h == [magic |-> SubSeq(b, 1, 4), original_size |-> SubSeq(b, 5, 12),
              flags |-> b[13], reserved |-> SubSeq(b, 14, 16)]
    IN  IF ~has_valid_prefix(h) THEN Err("InvalidMagic")
        ELSE IF ~has_valid_version(h) THEN ErrMsg("InvalidHeader", "Unsupported version")
        ELSE Ok(h)

----------------------------------------------------------------------------
(* FileMetadata: optional mtime (i64) and optional permissions (u32), as   *)
(* tag-length-value records. An absent field is the empty sequence, a      *)
(* present one the sequence of its little-endian bytes.                    *)

NoMetadata == [mtime |-> <<>>, permissions |-> <<>>]

\* FileMetadata::to_bytes
MetaToBytes(m) ==
    (IF m.mtime # <<>> THEN <<1, 8>> \o m.mtime ELSE <<>>)
    \o (IF m.permissions # <<>> THEN <<2, 4>> \o m.permissions ELSE <<>>)

\* FileMetadata::from_bytes: the loop from index i (1-based) with metadata m
RECURSIVE MetaParse(_, _, _)
MetaParse(bytes, i, m) ==
    IF i > Len(bytes) THEN Ok(m)
    ELSE IF i + 1 > Len(bytes) THEN Err("InvalidMetadata")
    ELSE LET type_ == bytes[i]
             length == bytes[i + 1]
             j == i + 2
         IN  IF j + length - 1 > Len(bytes) THEN Err("InvalidMetadata")
             ELSE LET value == SubSeq(bytes, j, j + length - 1)
                  IN  IF type_ = 1
                      THEN IF length = 8
                           THEN MetaParse(bytes, j + length, [m EXCEPT !.mtime = value])
                           ELSE Err("InvalidMetadata")
                      ELSE IF type_ = 2
                      THEN IF length = 4
                           THEN MetaParse(bytes, j + length, [m EXCEPT !.permissions = value])
                           ELSE Err("InvalidMetadata")
                      ELSE MetaParse(bytes, j + length, m)

\* a parser that reads zeros past the end of its input
MetaFromBytesPadded(bytes) ==
    MetaParse(bytes \o <<0, 0, 0, 0, 0, 0, 0, 0>>, 1, NoMetadata)
\* a parser that stops after the first record
MetaFromBytesFirstRecord(bytes) ==
    IF bytes = <<>> THEN Ok(NoMetadata)
    ELSE MetaParse(SubSeq(bytes, 1, 2 + bytes[2]), 1, NoMetadata)
MetaFromBytes(bytes) == MetaParse(bytes, 1, NoMetadata)

----------------------------------------------------------------------------
(* The DEFLATE plugin. flate2's encoder is modelled by the RFC 1951 stored *)
(* block it may emit (BFINAL=1, BTYPE=00, LEN, NLEN, the literal bytes);   *)
(* the decoder accepts exactly the streams made of one final stored block  *)
(* and reports every other stream as a failed operation.                   *)

\* f64 metrics are kept as integers (throughput in MB/s, ratio in percent)
\* or as NaN; every comparison with NaN is false
NaN == -1000000
FLe(a, b) == a # NaN /\ b # NaN /\ a <= b
FLt(a, b) == a # NaN /\ b # NaN /\ a < b
FGt(a, b) == a # NaN /\ b # NaN /\ a > b
\* arithmetic with a NaN operand gives NaN
FAdd(a, b) == IF a = NaN \/ b = NaN THEN NaN ELSE a + b
FSub(a, b) == IF a = NaN \/ b = NaN THEN NaN ELSE a - b
FAbs(a) == IF a = NaN THEN NaN ELSE IF a < 0 THEN 0 - a ELSE a

DEFLATE_MAGIC == <<67, 82, 1, 0>>

DeflatePlugin ==
    [name |-> "deflate", version |-> "1.0.0", magic_number |-> DEFLATE_MAGIC,
     throughput |-> 200, compression_ratio |-> 35]

\* DeflateEncoder output for the whole input
DeflateEncode(input) ==
    <<1>> \o U16LE(Len(input)) \o U16LE(65535 - Len(input)) \o input

\* a decoder that loses the last literal byte of the block
DeflateDecodeShort(payload) ==
    IF Len(payload) < 5 THEN Err("OperationFailed")
    ELSE LET len == FromU16LE(SubSeq(payload, 2, 3))
             nlen == FromU16LE(SubSeq(payload, 4, 5))
         IN  IF payload[1] % 8 # 1 THEN Err("OperationFailed")
             ELSE IF len + nlen # 65535 THEN Err("OperationFailed")
             ELSE IF Len(payload) < 5 + len THEN Err("OperationFailed")
             ELSE Ok(SubSeq(payload, 6, 4 + len))

\* DeflateDecoder output for the whole payload
DeflateDecode(payload) ==
    IF Len(payload) < 5 THEN Err("OperationFailed")
    ELSE LET len == FromU16LE(SubSeq(payload, 2, 3))
             nlen == FromU16LE(SubSeq(payload, 4, 5))
         IN  IF payload[1] % 8 # 1 THEN Err("OperationFailed")
             ELSE IF len + nlen # 65535 THEN Err("OperationFailed")
             ELSE IF Len(payload) < 5 + len THEN Err("OperationFailed")
             ELSE Ok(SubSeq(payload, 6, 5 + len))

\* DeflatePlugin::compress run to its end with the flag reading `cancelled`
\* at every poll
PluginCompress(input, cancelled) ==
    IF cancelled THEN Err("Cancelled") ELSE Ok(DeflateEncode(input))

\* DeflatePlugin::decompress run to its end with the flag reading `cancelled`
PluginDecompress(payload, cancelled) ==
    IF cancelled THEN Err("Cancelled") ELSE DeflateDecode(payload)

\* a plugin operation that panics: the call does not return, it unwinds
Panic == [ok |-> FALSE, err |-> "panic", val |-> <<>>]

\* A plugin of another crate, as far as the pipeline can tell it from
\* DeflatePlugin: a codec that frames the input with a tag made of its own
\* identifier, that fails on a payload that does not carry the tag, and that
\* reads the tag without looking at the length, so that it panics on the
\* empty payload
ForeignTag(p) == 128 + p.magic_number[4]
ForeignEncode(p, input) == <<ForeignTag(p)>> \o input
ForeignDecode(p, payload) ==
    IF payload = <<>> THEN Panic
    ELSE IF payload[1] # ForeignTag(p) THEN Err("OperationFailed")
    ELSE Ok(Tail(payload))

\* plugin.compress and plugin.decompress of the registered plugin p
PluginCompressOf(p, input, cancelled) ==
    IF p = DeflatePlugin THEN PluginCompress(input, cancelled)
    ELSE IF cancelled THEN Err("Cancelled") ELSE Ok(ForeignEncode(p, input))
PluginDecompressOf(p, payload, cancelled) ==
    IF p = DeflatePlugin THEN PluginDecompress(payload, cancelled)
    ELSE IF cancelled THEN Err("Cancelled") ELSE ForeignDecode(p, payload)

\* the statically known plugins of this crate, in enumeration order
COMPRESSION_ALGORITHMS == <<DeflatePlugin>>

\* Descriptors of plugins that other crates can add to the distributed
\* slice: a second and a third algorithm, the third declaring a ratio that
\* is not a number, and one that declares the identifier of DeflatePlugin
ZSTD_MAGIC == <<67, 82, 1, 1>>
LZ4_MAGIC == <<67, 82, 1, 2>>
BAD_MAGIC == <<67, 82, 1, 3>>

ZstdPlugin ==
    [name |-> "zstd", version |-> "1.0.0", magic_number |-> ZSTD_MAGIC,
     throughput |-> 100, compression_ratio |-> 30]
Lz4Plugin ==
    [name |-> "lz4", version |-> "1.0.0", magic_number |-> LZ4_MAGIC,
     throughput |-> 200, compression_ratio |-> NaN]
ShadowPlugin ==
    [name |-> "shadow", version |-> "1.0.0", magic_number |-> DEFLATE_MAGIC,
     throughput |-> 500, compression_ratio |-> 50]

\* descriptors handed to calculate_plugin_score only: one as fast as
\* DeflatePlugin with the ratio of ZstdPlugin, one with both metrics of
\* DeflatePlugin
SameSpeedPlugin ==
    [name |-> "samespeed", version |-> "1.0.0", magic_number |-> <<67, 82, 1, 16>>,
     throughput |-> 200, compression_ratio |-> 30]
TwinPlugin ==
    [name |-> "twin", version |-> "1.0.0", magic_number |-> <<67, 82, 1, 17>>,
     throughput |-> 200, compression_ratio |-> 35]

\* descriptors register() accepts
PluginPool == {DeflatePlugin, ZstdPlugin, Lz4Plugin, ShadowPlugin}

\* descriptors register() rejects, one for each test of the validation
RejectedPool ==
    {[name |-> "", version |-> "1.0.0", magic_number |-> BAD_MAGIC,
      throughput |-> 200, compression_ratio |-> 35],
     [name |-> "zstd", version |-> "", magic_number |-> BAD_MAGIC,
      throughput |-> 200, compression_ratio |-> 35],
     [name |-> "zstd", version |-> "1.0.0", magic_number |-> BAD_MAGIC,
      throughput |-> 0, compression_ratio |-> 35],
     [name |-> "zstd", version |-> "1.0.0", magic_number |-> BAD_MAGIC,
      throughput |-> 200, compression_ratio |-> 0],
     [name |-> "zstd", version |-> "1.0.0", magic_number |-> BAD_MAGIC,
      throughput |-> 200, compression_ratio |-> 150]}

Magics == {DEFLATE_MAGIC, ZSTD_MAGIC, LZ4_MAGIC, BAD_MAGIC}

----------------------------------------------------------------------------
(* Plugin registry *)

\* PluginRegistry::new inside a still empty Option (None)
NoRegistry == [present |-> FALSE, initialized |-> FALSE, plugins |-> {}]

\* PluginRegistry::get; the map is kept as the set of its values, at most
\* one per magic number
RegistryGet(reg, magic) == {p \in reg.plugins : p.magic_number = magic}

\* the validation part of PluginRegistry::register
ValidDescriptor(m) ==
    /\ m.name # ""
    /\ m.version # ""
    /\ ~FLe(m.throughput, 0)
    /\ ~(FLe(m.compression_ratio, 0) \/ FGt(m.compression_ratio, 100))

\* a registration in which the later plugin replaces the earlier one
RegisterLastWins(reg, plugin) ==
    IF ~ValidDescriptor(plugin) THEN [reg |-> reg, res |-> Err("InvalidMetadata")]
    ELSE [reg |-> [reg EXCEPT !.plugins =
                       (@ \ RegistryGet(reg, plugin.magic_number)) \cup {plugin}],
          res |-> Ok(<<>>)]

\* PluginRegistry::register
Register(reg, plugin) ==
    IF ~ValidDescriptor(plugin) THEN [reg |-> reg, res |-> Err("InvalidMetadata")]
    ELSE IF RegistryGet(reg, plugin.magic_number) # {} THEN [reg |-> reg, res |-> Ok(<<>>)]
    ELSE [reg |-> [reg EXCEPT !.plugins = @ \cup {plugin}], res |-> Ok(<<>>)]

\* PluginRegistry::clear
Clear(reg) == [reg EXCEPT !.plugins = {}, !.initialized = FALSE]

\* the loop of init_plugins over the linked slice from index i
RECURSIVE RegisterAll(_, _, _)
RegisterAll(reg, algos, i) ==
    IF i > Len(algos) THEN [reg |-> reg, res |-> Ok(<<>>)]
    ELSE LET r == Register(reg, algos[i])
         IN  IF r.res.ok THEN RegisterAll(r.reg, algos, i + 1) ELSE r

\* init_plugins, under the write lock from beginning to end
InitPluginsResult(reg, algos) ==
    LET created == [reg EXCEPT !.present = TRUE]
        cleared == IF created.initialized THEN Clear(created) ELSE created
        r == RegisterAll(cleared, algos, 1)
    IN  IF r.res.ok THEN [reg |-> [r.reg EXCEPT !.initialized = TRUE], res |-> r.res]
        ELSE r

\* list_plugins (as a set: the map's iteration order is not fixed)
list_plugins(reg) == IF reg.present THEN reg.plugins ELSE {}

\* get_plugin_by_magic
get_plugin_by_magic(reg, magic) == IF reg.present THEN RegistryGet(reg, magic) ELSE {}

\* a default lookup that falls back to the built-in plugin
get_default_plugin_BuiltIn(reg) == {DeflatePlugin}

\* get_default_plugin
get_default_plugin(reg) == get_plugin_by_magic(reg, DEFLATE_MAGIC)

---------------------------------------------------------------------------------------------------------------------------------------------------
(* Plugin selector. Weights are in thousandths. A score is kept exactly,   *)
(* as the pair <<numerator, denominator>> with a positive denominator, or  *)
(* as <<NaN, 1>>.                                                          *)

ONE == 1000

\* ScoringWeights::new takes its arguments in units of 1e-8, so that the
\* tolerance of the sum is a whole number of units: 1.0 and 1e-6
W_ONE == 100000000
W_EPSILON == 100

\* a constructor that does not test the signs
ScoringWeightsNew_NoSignTest(throughput, compression_ratio) ==
    LET sum == FAdd(throughput, compression_ratio)
    IN  IF FGt(FAbs(FSub(sum, W_ONE)), W_EPSILON) THEN Err("InvalidWeights")
        ELSE Ok([throughput |-> throughput, compression_ratio |-> compression_ratio])
\* ScoringWeights::new
ScoringWeightsNew(throughput, compression_ratio) ==
    IF FLt(throughput, 0) \/ FLt(compression_ratio, 0) THEN Err("InvalidWeights")
    ELSE LET sum == FAdd(throughput, compression_ratio)
         IN  IF FGt(FAbs(FSub(sum, W_ONE)), W_EPSILON) THEN Err("InvalidWeights")
             ELSE Ok([throughput |-> throughput, compression_ratio |-> compression_ratio])

\* f64::ln of the throughputs that occur, in thousandths; ln(NaN) is NaN
LnMilli(t) ==
    CASE t = 100 -> 4605
      [] t = 200 -> 5298
      [] t = 500 -> 6215
      [] OTHER -> NaN

\* names in ascending (byte-wise) order, for str::cmp
NameOrder == <<"", "deflate", "lz4", "samespeed", "shadow", "twin", "zstd">>
NameRank(n) == CHOOSE i \in 1..Len(NameOrder) : NameOrder[i] = n
NameLess(a, b) == NameRank(a) < NameRank(b)

SetMin(S) == CHOOSE x \in S : \A y \in S : x <= y
SetMax(S) == CHOOSE x \in S : \A y \in S : x >= y

\* fold(f64::INFINITY, f64::min) and fold(f64::NEG_INFINITY, f64::max):
\* f64::min and f64::max skip a NaN operand, so the folds range over the
\* values that are not NaN (S is such a set, not empty)
FoldMin(S) == SetMin(S)
FoldMax(S) == SetMax(S)

\* min-max normalisation of x, as the pair <<numerator, denominator>>;
\* vals are the values of all plugins, higher: whether a higher x is better.
\* With only NaN values the folds keep their infinities and the quotient is
\* NaN; with equal extremes the result is 1.0 whatever x is.
NormaliseDividesByZero(x, vals, higher) ==
    LET S == vals \ {NaN}
    IN  IF S = {} THEN <<NaN, 1>>
        ELSE IF FoldMax(S) = FoldMin(S) THEN <<NaN, 1>>
        ELSE IF x = NaN THEN <<NaN, 1>>
        ELSE <<IF higher THEN x - FoldMin(S) ELSE FoldMax(S) - x, FoldMax(S) - FoldMin(S)>>
Normalise(x, vals, higher) ==
    LET S == vals \ {NaN}
    IN  IF S = {} THEN <<NaN, 1>>
        ELSE IF FoldMax(S) = FoldMin(S) THEN <<1, 1>>
        ELSE IF x = NaN THEN <<NaN, 1>>
        ELSE <<IF higher THEN x - FoldMin(S) ELSE FoldMax(S) - x, FoldMax(S) - FoldMin(S)>>

\* a score computed without the single-plugin special case
calculate_plugin_score_NoSpecialCase(plugin, all_plugins, weights) ==
    IF all_plugins = {} THEN <<0, 1>>
    ELSE LET norm_throughput ==
                 Normalise(LnMilli(plugin.throughput),
                           {LnMilli(p.throughput) : p \in all_plugins}, TRUE)
             norm_ratio ==
                 Normalise(plugin.compression_ratio,
                           {p.compression_ratio : p \in all_plugins}, FALSE)
         IN  IF norm_throughput[1] = NaN \/ norm_ratio[1] = NaN
                \/ weights.throughput = NaN \/ weights.compression_ratio = NaN
             THEN <<NaN, 1>>
             ELSE <<weights.throughput * norm_throughput[1] * norm_ratio[2]
                        + weights.compression_ratio * norm_ratio[1] * norm_throughput[2],
                    ONE * norm_throughput[2] * norm_ratio[2]>>

\* calculate_plugin_score
calculate_plugin_score(plugin, all_plugins, weights) ==
    IF all_plugins = {} THEN <<0, 1>>
    ELSE IF Cardinality(all_plugins) = 1 THEN <<1, 1>>
    ELSE LET norm_throughput ==
                 Normalise(LnMilli(plugin.throughput),
                           {LnMilli(p.throughput) : p \in all_plugins}, TRUE)
             norm_ratio ==
                 Normalise(plugin.compression_ratio,
                           {p.compression_ratio : p \in all_plugins}, FALSE)
         IN  IF norm_throughput[1] = NaN \/ norm_ratio[1] = NaN
                \/ weights.throughput = NaN \/ weights.compression_ratio = NaN
             THEN <<NaN, 1>>
             ELSE <<weights.throughput * norm_throughput[1] * norm_ratio[2]
                        + weights.compression_ratio * norm_ratio[1] * norm_throughput[2],
                    ONE * norm_throughput[2] * norm_ratio[2]>>

\* f64::partial_cmp on two scores: "Less", "Equal", "Greater" or "None"
PartialCmp(x, y) ==
    IF x[1] = NaN \/ y[1] = NaN THEN "None"
    ELSE LET l == IF x[2] = y[2] THEN x[1] ELSE x[1] * y[2]
             r == IF x[2] = y[2] THEN y[1] ELSE y[1] * x[2]
         IN  IF l < r THEN "Less" ELSE IF l > r THEN "Greater" ELSE "Equal"

\* the comparator handed to sort_by: score descending, then name ascending
Comparator(a, b, all_plugins, weights) ==
    LET byScore == PartialCmp(calculate_plugin_score(b, all_plugins, weights),
                              calculate_plugin_score(a, all_plugins, weights))
    IN  IF byScore \in {"Less", "Greater"} THEN byScore
        ELSE IF NameLess(a.name, b.name) THEN "Less"
        ELSE IF NameLess(b.name, a.name) THEN "Greater"
        ELSE "Equal"

\* the comparator of PluginSelector::select: a sorts strictly before b
SortsBefore(a, b, all_plugins, weights) ==
    Comparator(a, b, all_plugins, weights) = "Less"

\* slice::sort_by on a short slice: stable insertion sort, each element
\* shifted left past the elements it sorts strictly before
RECURSIVE InsertTail(_, _, _, _)
InsertTail(sorted, x, all_plugins, weights) ==
    IF sorted = <<>> THEN <<x>>
    ELSE IF SortsBefore(x, sorted[Len(sorted)], all_plugins, weights)
    THEN InsertTail(SubSeq(sorted, 1, Len(sorted) - 1), x, all_plugins, weights)
             \o <<sorted[Len(sorted)]>>
    ELSE sorted \o <<x>>

RECURSIVE SortBy(_, _, _, _)
SortBy(v, i, all_plugins, weights) ==
    IF i > Len(v) THEN v
    ELSE SortBy(InsertTail(SubSeq(v, 1, i - 1), v[i], all_plugins, weights)
                    \o SubSeq(v, i + 1, Len(v)),
                i + 1, all_plugins, weights)

\* the orders in which the map can hand out its values
IterationOrders(S) ==
    {v \in [1..Cardinality(S) -> S] : \A i, j \in 1..Cardinality(S) : i # j => v[i] # v[j]}

\* PluginSelector::select: the descriptors it can return (none: NotFound)
select(reg, weights) ==
    LET plugins == list_plugins(reg)
    IN  {SortBy(v, 2, plugins, weights)[1] : v \in IterationOrders(plugins) \ {<<>>}}

\* a lookup by name that takes whatever the list yields first
select_by_name_FirstListed(reg, name) == list_plugins(reg)

\* PluginSelector::select_by_name: the descriptors find() can return
select_by_name(reg, name) == {p \in list_plugins(reg) : p.name = name}

----------------------------------------------------------------------------
(* Compression pipeline *)

DEFAULT_TIMEOUT == 0

\* an executor that hands over what the operation has written so far when
\* the deadline passes
RunResultPartial(timeout, opResult, deadlineFirst) ==
    IF timeout # 0 /\ deadlineFirst /\ opResult.ok
    THEN Ok(SubSeq(opResult.val, 1, Len(opResult.val) - 1))
    ELSE opResult

\* run_with_timeout_v2 as its caller sees it, for an operation that neither
\* panics nor hangs and ends with opResult; deadlineFirst: the receive
\* observes the deadline before the worker has delivered
RunResult(timeout, opResult, deadlineFirst) ==
    IF timeout # 0 /\ deadlineFirst THEN Err("Timeout") ELSE opResult

\* run_with_timeout_and_cancel: the executor with the caller's token as the
\* flag the operation polls; cancelledMid: another thread cancels the token
\* while the operation still has a poll ahead
RunAndCancelResult(timeout, plugin, input, deadlineFirst, cancelledMid) ==
    RunResult(timeout, PluginCompressOf(plugin, input, cancelledMid), deadlineFirst)

\* a container whose checksum covers the compressed payload alone
AssembleCrcOfPayload(magic, input, metadata_bytes, compressed_payload) ==
    LET payload_with_metadata ==
            (IF metadata_bytes # <<>>
             THEN U16LE(Len(metadata_bytes)) \o metadata_bytes ELSE <<>>)
            \o compressed_payload
        h0 == with_crc32(NewHeader(magic, Len(input)))
        header == IF metadata_bytes # <<>> THEN with_metadata(h0) ELSE h0
    IN  to_bytes(header) \o Crc32(compressed_payload) \o payload_with_metadata

\* header + CRC32 + payload_with_metadata
Assemble(magic, input, metadata_bytes, compressed_payload) ==
    LET payload_with_metadata ==
            (IF metadata_bytes # <<>>
             THEN U16LE(Len(metadata_bytes)) \o metadata_bytes ELSE <<>>)
            \o compressed_payload
        h0 == with_crc32(NewHeader(magic, Len(input)))
        header == IF metadata_bytes # <<>> THEN with_metadata(h0) ELSE h0
    IN  to_bytes(header) \o Crc32(payload_with_metadata) \o payload_with_metadata

\* a compress that leaves the checksum out
CompressUnchecked(reg, input) ==
    IF get_default_plugin(reg) = {}
    THEN [res |-> Err("NotFound"), workers |-> 0, pcalls |-> 0]
    ELSE LET plugin == CHOOSE q \in get_default_plugin(reg) : TRUE
             r == RunResult(DEFAULT_TIMEOUT, PluginCompressOf(plugin, input, FALSE), FALSE)
         IN  [res |-> IF r.ok
                      THEN Ok(to_bytes(NewHeader(DEFLATE_MAGIC, Len(input))) \o r.val)
                      ELSE r,
              workers |-> 1, pcalls |-> 1]

\* compress
Compress(reg, input) ==
    IF get_default_plugin(reg) = {}
    THEN [res |-> Err("NotFound"), workers |-> 0, pcalls |-> 0]
    ELSE LET plugin == CHOOSE q \in get_default_plugin(reg) : TRUE
             r == RunResult(DEFAULT_TIMEOUT, PluginCompressOf(plugin, input, FALSE), FALSE)
         IN  [res |-> IF r.ok THEN Ok(Assemble(DEFLATE_MAGIC, input, <<>>, r.val)) ELSE r,
              workers |-> 1, pcalls |-> 1]

\* compress_with_options that looks at the token only after the selection
CompressWithOptionsLateCheck(reg, input, options, sel, deadlineFirst, cancelledMid) ==
    IF sel = {}
    THEN [res |-> Err("NotFound"), workers |-> 0, pcalls |-> 0]
    ELSE LET selected_metadata == CHOOSE p \in sel : TRUE
         IN  IF get_plugin_by_magic(reg, selected_metadata.magic_number) = {}
             THEN [res |-> Err("NotFound"), workers |-> 0, pcalls |-> 0]
             ELSE IF options.cancel_token = "cancelled"
             THEN [res |-> Err("Cancelled"), workers |-> 0, pcalls |-> 0]
             ELSE LET plugin == CHOOSE q \in get_plugin_by_magic(
                                                 reg, selected_metadata.magic_number) : TRUE
                      r == RunAndCancelResult(options.timeout, plugin, input,
                                              deadlineFirst, cancelledMid)
                      metadata_bytes == IF options.file_metadata.some
                                        THEN MetaToBytes(options.file_metadata.m)
                                        ELSE <<>>
                  IN  [res |-> IF r.ok
                               THEN Ok(Assemble(selected_metadata.magic_number, input,
                                                metadata_bytes, r.val))
                               ELSE r,
                       workers |-> 1, pcalls |-> 1]

\* compress_with_options; sel is the descriptor the selector returned
CompressWithOptions(reg, input, options, sel, deadlineFirst, cancelledMid) ==
    IF options.cancel_token = "cancelled"
    THEN [res |-> Err("Cancelled"), workers |-> 0, pcalls |-> 0]
    ELSE IF sel = {}
    THEN [res |-> Err("NotFound"), workers |-> 0, pcalls |-> 0]
    ELSE LET selected_metadata == CHOOSE p \in sel : TRUE
         IN  IF get_plugin_by_magic(reg, selected_metadata.magic_number) = {}
             THEN [res |-> Err("NotFound"), workers |-> 0, pcalls |-> 0]
             ELSE LET plugin == CHOOSE q \in get_plugin_by_magic(
                                                 reg, selected_metadata.magic_number) : TRUE
                      r == RunAndCancelResult(options.timeout, plugin, input,
                                              deadlineFirst, cancelledMid)
                      metadata_bytes == IF options.file_metadata.some
                                        THEN MetaToBytes(options.file_metadata.m)
                                        ELSE <<>>
                  IN  [res |-> IF r.ok
                               THEN Ok(Assemble(selected_metadata.magic_number, input,
                                                metadata_bytes, r.val))
                               ELSE r,
                       workers |-> 1, pcalls |-> 1]

----------------------------------------------------------------------------
(* Decompression and inspection *)

\* the CRC32 section shared by decompress and inspect: stored and computed
StoredCrc(input) == SubSeq(input, SIZE + 1, SIZE + 4)
ComputedCrc(input) == Crc32(Tail_(input, SIZE + 5))

\* the metadata section shared by decompress and inspect; payload_start is
\* the 0-based offset reached after the CRC32 section
ParseMetadata(input, header, payload_start) ==
    IF has_metadata(header)
    THEN IF Len(input) < payload_start + 2
         THEN ErrMsg("InvalidHeader", "Truncated: metadata flag set but no metadata length")
         ELSE LET metadata_len == FromU16LE(SubSeq(input, payload_start + 1,
                                                   payload_start + 2))
                  start == payload_start + 2
              IN  IF Len(input) < start + metadata_len
                  THEN ErrMsg("InvalidHeader",
                              "Truncated: metadata length exceeds payload size")
                  ELSE LET m == MetaFromBytes(SubSeq(input, start + 1,
                                                     start + metadata_len))
                       IN  IF m.ok
                           THEN Ok([metadata |-> m.val,
                                    payload_start |-> start + metadata_len])
                           ELSE m
    ELSE Ok([metadata |-> NoMetadata, payload_start |-> payload_start])

\* what a decode call returned and did: checksums computed, registry
\* lookups by identifier, plugin operations invoked and on which plugin
Decoded(res, crcs, lookups, dcalls, plugin) ==
    [res |-> res, crcs |-> crcs, lookups |-> lookups, dcalls |-> dcalls,
     plugin |-> plugin]

\* a size test that accepts an output shorter than declared
SizeMatchesAtMost(decompressed, header) ==
    \E n \in Len(decompressed)..(Len(decompressed) + 1) : U64LE(n) = header.original_size
\* decompressed.len() == expected_size; usize is 64 bits wide, so that the
\* conversion of original_size to usize does not fail
SizeMatches(decompressed, header) == U64LE(Len(decompressed)) = header.original_size

\* a decompress that hands every payload to the default plugin
DecompressByDefault(reg, input) ==
    IF Len(input) < SIZE
    THEN Decoded(ErrMsg("InvalidHeader", "Input too short"), 0, 0, 0, "")
    ELSE LET hr == from_bytes(SubSeq(input, 1, SIZE))
         IN
         IF ~hr.ok THEN Decoded(hr, 0, 0, 0, "")
         ELSE IF has_crc32(hr.val) /\ Len(input) < SIZE + 4
         THEN Decoded(ErrMsg("InvalidHeader", "Truncated: CRC32 flag set but no CRC32 data"),
                      0, 0, 0, "")
         ELSE IF has_crc32(hr.val) /\ StoredCrc(input) # ComputedCrc(input)
         THEN Decoded(Err("CrcMismatch"), 1, 0, 0, "")
         ELSE LET header == hr.val
                  crcs == IF has_crc32(header) THEN 1 ELSE 0
                  mr == ParseMetadata(input, header,
                                      IF has_crc32(header) THEN SIZE + 4 ELSE SIZE)
                  found == get_default_plugin(reg)
              IN
              IF ~mr.ok THEN Decoded(mr, crcs, 0, 0, "")
              ELSE IF found = {} THEN Decoded(Err("NotFound"), crcs, 1, 0, "")
              ELSE LET plugin == CHOOSE q \in found : TRUE
                       d == PluginDecompressOf(plugin,
                                               Tail_(input, mr.val.payload_start + 1), FALSE)
                   IN  IF ~d.ok THEN Decoded(d, crcs, 1, 1, plugin.name)
                       ELSE IF ~SizeMatches(d.val, header)
                       THEN Decoded(Err("CorruptedData"), crcs, 1, 1, plugin.name)
                       ELSE Decoded(Ok([data |-> d.val, metadata |-> mr.val.metadata]),
                                    crcs, 1, 1, plugin.name)
\* a decompress that looks the plugin up before it verifies the checksum
DecompressLookupFirst(reg, input) ==
    IF Len(input) < SIZE
    THEN Decoded(ErrMsg("InvalidHeader", "Input too short"), 0, 0, 0, "")
    ELSE LET hr == from_bytes(SubSeq(input, 1, SIZE))
         IN
         IF ~hr.ok THEN Decoded(hr, 0, 0, 0, "")
         ELSE IF get_plugin_by_magic(reg, hr.val.magic) = {}
         THEN Decoded(Err("NotFound"), 0, 1, 0, "")
         ELSE IF has_crc32(hr.val) /\ Len(input) < SIZE + 4
         THEN Decoded(ErrMsg("InvalidHeader", "Truncated: CRC32 flag set but no CRC32 data"),
                      0, 0, 0, "")
         ELSE IF has_crc32(hr.val) /\ StoredCrc(input) # ComputedCrc(input)
         THEN Decoded(Err("CrcMismatch"), 1, 0, 0, "")
         ELSE LET header == hr.val
                  crcs == IF has_crc32(header) THEN 1 ELSE 0
                  mr == ParseMetadata(input, header,
                                      IF has_crc32(header) THEN SIZE + 4 ELSE SIZE)
                  found == get_plugin_by_magic(reg, header.magic)
              IN
              IF ~mr.ok THEN Decoded(mr, crcs, 0, 0, "")
              ELSE IF found = {} THEN Decoded(Err("NotFound"), crcs, 1, 0, "")
              ELSE LET plugin == CHOOSE q \in found : TRUE
                       d == PluginDecompressOf(plugin,
                                               Tail_(input, mr.val.payload_start + 1), FALSE)
                   IN  IF ~d.ok THEN Decoded(d, crcs, 1, 1, plugin.name)
                       ELSE IF ~SizeMatches(d.val, header)
                       THEN Decoded(Err("CorruptedData"), crcs, 1, 1, plugin.name)
                       ELSE Decoded(Ok([data |-> d.val, metadata |-> mr.val.metadata]),
                                    crcs, 1, 1, plugin.name)
\* decompress
Decompress(reg, input) ==
    IF Len(input) < SIZE
    THEN Decoded(ErrMsg("InvalidHeader", "Input too short"), 0, 0, 0, "")
    ELSE LET hr == from_bytes(SubSeq(input, 1, SIZE))
         IN
         IF ~hr.ok THEN Decoded(hr, 0, 0, 0, "")
         ELSE IF has_crc32(hr.val) /\ Len(input) < SIZE + 4
         THEN Decoded(ErrMsg("InvalidHeader", "Truncated: CRC32 flag set but no CRC32 data"),
                      0, 0, 0, "")
         ELSE IF has_crc32(hr.val) /\ StoredCrc(input) # ComputedCrc(input)
         THEN Decoded(Err("CrcMismatch"), 1, 0, 0, "")
         ELSE LET header == hr.val
                  crcs == IF has_crc32(header) THEN 1 ELSE 0
                  mr == ParseMetadata(input, header,
                                      IF has_crc32(header) THEN SIZE + 4 ELSE SIZE)
                  found == get_plugin_by_magic(reg, header.magic)
              IN
              IF ~mr.ok THEN Decoded(mr, crcs, 0, 0, "")
              ELSE IF found = {} THEN Decoded(Err("NotFound"), crcs, 1, 0, "")
              ELSE LET plugin == CHOOSE q \in found : TRUE
                       d == PluginDecompressOf(plugin,
                                               Tail_(input, mr.val.payload_start + 1), FALSE)
                   IN  IF ~d.ok THEN Decoded(d, crcs, 1, 1, plugin.name)
                       ELSE IF ~SizeMatches(d.val, header)
                       THEN Decoded(Err("CorruptedData"), crcs, 1, 1, plugin.name)
                       ELSE Decoded(Ok([data |-> d.val, metadata |-> mr.val.metadata]),
                                    crcs, 1, 1, plugin.name)

\* inspect that gives up on a checksum mismatch, as decompress does
InspectFailsOnCrc(reg, input) ==
    IF Len(input) < SIZE
    THEN Decoded(ErrMsg("InvalidHeader", "Input too short"), 0, 0, 0, "")
    ELSE LET hr == from_bytes(SubSeq(input, 1, SIZE))
         IN
         IF ~hr.ok THEN Decoded(hr, 0, 0, 0, "")
         ELSE IF has_crc32(hr.val) /\ Len(input) < SIZE + 4
         THEN Decoded(ErrMsg("InvalidHeader", "Truncated: CRC32 flag set but no CRC32 data"),
                      0, 0, 0, "")
         ELSE IF has_crc32(hr.val) /\ StoredCrc(input) # ComputedCrc(input)
         THEN Decoded(Err("CrcMismatch"), 1, 0, 0, "")
         ELSE LET header == hr.val
                  crcs == IF has_crc32(header) THEN 1 ELSE 0
                  mr == ParseMetadata(input, header,
                                      IF has_crc32(header) THEN SIZE + 4 ELSE SIZE)
                  plugin == get_plugin_by_magic(reg, header.magic)
              IN
              IF ~mr.ok THEN Decoded(mr, crcs, 0, 0, "")
              ELSE IF plugin = {} THEN Decoded(Err("NotFound"), crcs, 1, 0, "")
              ELSE Decoded(Ok([original_size |-> header.original_size,
                               compressed_size |-> Len(input),
                               plugin_name |-> (CHOOSE q \in plugin : TRUE).name,
                               crc_valid |-> has_crc32(header),
                               metadata |-> mr.val.metadata]),
                           crcs, 1, 0, "")

\* inspect
Inspect(reg, input) ==
    IF Len(input) < SIZE
    THEN Decoded(ErrMsg("InvalidHeader", "Input too short"), 0, 0, 0, "")
    ELSE LET hr == from_bytes(SubSeq(input, 1, SIZE))
         IN
         IF ~hr.ok THEN Decoded(hr, 0, 0, 0, "")
         ELSE IF has_crc32(hr.val) /\ Len(input) < SIZE + 4
         THEN Decoded(ErrMsg("InvalidHeader", "Truncated: CRC32 flag set but no CRC32 data"),
                      0, 0, 0, "")
         ELSE LET header == hr.val
                  crcs == IF has_crc32(header) THEN 1 ELSE 0
                  crc_valid == has_crc32(header) /\ StoredCrc(input) = ComputedCrc(input)
                  mr == ParseMetadata(input, header,
                                      IF has_crc32(header) THEN SIZE + 4 ELSE SIZE)
                  plugin == get_plugin_by_magic(reg, header.magic)
              IN
              IF ~mr.ok THEN Decoded(mr, crcs, 0, 0, "")
              ELSE IF plugin = {} THEN Decoded(Err("NotFound"), crcs, 1, 0, "")
              ELSE Decoded(Ok([original_size |-> header.original_size,
                               compressed_size |-> Len(input),
                               plugin_name |-> (CHOOSE q \in plugin : TRUE).name,
                               crc_valid |-> crc_valid,
                               metadata |-> mr.val.metadata]),
                           crcs, 1, 0, "")

----------------------------------------------------------------------------
(* Inputs of the pipeline operations *)

\* CompressionOptions.plugin_name: "" is None; "zstd" is not registered
PluginNames == {"", "deflate", "zstd"}

WeightChoices == {[throughput |-> 700, compression_ratio |-> 300],
                  [throughput |-> 0, compression_ratio |-> 1000]}

\* CompressionOptions.timeout: zero, or some non-zero duration
Timeouts == {0, 1}

\* CompressionOptions.file_metadata: None, or Some(m)
MetaChoices ==
    {[some |-> FALSE, m |-> NoMetadata],
     [some |-> TRUE, m |-> NoMetadata],
     [some |-> TRUE, m |-> [mtime |-> I64LE(-2), permissions |-> <<>>]],
     [some |-> TRUE, m |-> [mtime |-> <<>>, permissions |-> U32LE(420)]],
     [some |-> TRUE, m |-> [mtime |-> I64LE(-2), permissions |-> U32LE(420)]]}

\* CompressionOptions.cancel_token: None, a token not cancelled, a cancelled one
TokenChoices == {"none", "live", "cancelled"}

AllOptions ==
    [plugin_name : PluginNames, weights : WeightChoices, timeout : Timeouts,
     file_metadata : MetaChoices, cancel_token : TokenChoices]

\* CompressionOptions::new()
DefaultOptions ==
    [plugin_name |-> "", weights |-> [throughput |-> 700, compression_ratio |-> 300],
     timeout |-> DEFAULT_TIMEOUT, file_metadata |-> [some |-> FALSE, m |-> NoMetadata],
     cancel_token |-> "none"]

\* what compress_with_options can return, over the ways its run can be
\* scheduled: the deadline passing first, the token cancelled during the
\* run, and the order in which the registry lists its plugins
CwoResults(reg, input, options) ==
    LET found == IF options.plugin_name # ""
                 THEN select_by_name(reg, options.plugin_name)
                 ELSE select(reg, options.weights)
        sels == IF found = {} THEN {{}} ELSE {{p} : p \in found}
    IN  {CompressWithOptions(reg, input, options, sel, deadlineFirst, cancelledMid).res :
            sel \in sels,
            deadlineFirst \in (IF options.timeout = 0 THEN {FALSE} ELSE BOOLEAN),
            cancelledMid \in (IF options.cancel_token = "live" THEN BOOLEAN ELSE {FALSE})}

NoSrc == [input |-> <<>>, meta |-> NoMetadata, by |-> "none"]

Outcome(op, res, workers, pcalls, dcalls, pre) ==
    [op |-> op, res |-> res, workers |-> workers, pcalls |-> pcalls, dcalls |-> dcalls,
     pre |-> pre, crcs |-> 0, lookups |-> 0, plugin |-> ""]

\* the byte b with bit k (0 = least significant) inverted
FlipBitOfByte(b, k) == IF (b \div (2 ^ k)) % 2 = 1 THEN b - 2 ^ k ELSE b + 2 ^ k

\* the bytes with the bit at 1-based position pos inverted
FlipAt(bytes, pos) ==
    LET i == ((pos - 1) \div 8) + 1
        k == (pos - 1) % 8
    IN  [bytes EXCEPT ![i] = FlipBitOfByte(bytes[i], k)]

\* bit positions of the checksum field and of the checksummed region
ChecksumBits == (8 * SIZE + 1)..(8 * (SIZE + 4))
RegionBits(bytes) == (8 * (SIZE + 4) + 1)..(8 * Len(bytes))

\* 0-based offset of the compressed payload in a container made from src
PayloadOffset(s) ==
    SIZE + 4 + (IF MetaToBytes(s.meta) # <<>> THEN 2 + Len(MetaToBytes(s.meta)) ELSE 0)

----------------------------------------------------------------------------
(* Executor state while no run is in progress *)

NoRun == [pc |-> "idle", timeout |-> 0, result |-> Err("none"), via |-> "none",
          deadline |-> FALSE]
NoWorker == [pc |-> "none", op |-> "none", chunks |-> 0, result |-> Err("none"),
             sent |-> FALSE, after |-> 0, panicked |-> FALSE]
NoChan == [slot |-> <<>>, tx |-> FALSE, rx |-> FALSE]
NoToken == [some |-> FALSE, cancelled |-> FALSE, mid |-> FALSE]

ExecIdle ==
    /\ run = NoRun
    /\ worker = NoWorker
    /\ cancel_flag = FALSE
    /\ chan = NoChan
    /\ token = NoToken

\* Registry threads: the client whose calls are observed, and another
\* thread that initialises the registry at any time
Threads == {"client", "other"}

NoWriter == [t \in Threads |-> [pc |-> "none", i |-> 0]]
NoSeen == [op |-> "none", arg |-> <<>>, res |-> Ok(<<>>), listed |-> {}, fresh |-> FALSE,
           at |-> NoRegistry]
NoHist == [committed |-> NoRegistry, first |-> {}, inits |-> "none"]

RegIdle ==
    /\ writer = NoWriter
    /\ seen = NoSeen
    /\ hist = NoHist

PipeIdle ==
    /\ src = NoSrc
    /\ blob = <<>>
    /\ flip = 0
    /\ last = Outcome("none", Ok(<<>>), 0, 0, 0, FALSE)

\* The paths a resource tracker is given: output files and temporary files
OutPaths == {"out", "out2"}

TempPaths == {"tmp1", "tmp2"}

\* ResourceTracker::new(): no output path, no temporary files, not complete;
\* passes counts the executions of the deletion pass of cleanup_all
NewTracker ==
    [output_path |-> <<>>, temp_files |-> <<>>, is_complete |-> FALSE,
     dropped |-> FALSE, passes |-> 0]

\* The file system: the paths that exist, the paths remove_file fails on, the
\* paths that existed when the tracker was dropped, and the result of the
\* last cleanup_all()
NoFiles == [exist |-> {}, locked |-> {}, atDrop |-> {}, res |-> "none"]

CancelIdle ==
    /\ tokenCancelled = FALSE
    /\ calls = <<>>
    /\ tracker = NewTracker
    /\ files = NoFiles

----------------------------------------------------------------------------
(* Pipeline specification *)

Init ==
    /\ registry = NoRegistry
    /\ algorithms = COMPRESSION_ALGORITHMS
    /\ CancelIdle
    /\ PipeIdle
    /\ ExecIdle
    /\ RegIdle

\* init_plugins()
InitPlugins ==
    /\ registry' = InitPluginsResult(registry, algorithms).reg
    /\ last' = Outcome("init", InitPluginsResult(registry, algorithms).res, 0, 0, 0, FALSE)
    /\ UNCHANGED <<src, blob, flip>>
    /\ UNCHANGED execVars
    /\ UNCHANGED regVars
    /\ UNCHANGED cancelVars

\* compress(input); the client compresses when it holds no container
DoCompress ==
    /\ blob = <<>> /\ flip = 0
    /\ \E input \in Inputs :
        LET r == Compress(registry, input)
        IN  /\ last' = Outcome("compress", r.res, r.workers, r.pcalls, 0, FALSE)
            /\ blob' = IF r.res.ok THEN r.res.val ELSE <<>>
            /\ src' = IF r.res.ok
                      THEN [input |-> input, meta |-> NoMetadata, by |-> "compress"]
                      ELSE NoSrc
            /\ flip' = 0
            /\ UNCHANGED registry
            /\ UNCHANGED execVars
            /\ UNCHANGED regVars
            /\ UNCHANGED cancelVars

\* compress_with_options(input, options)
DoCompressWithOptions ==
    /\ blob = <<>> /\ flip = 0
    /\ \E input \in Inputs, options \in AllOptions :
        \E deadlineFirst \in (IF options.timeout = 0 THEN {FALSE} ELSE BOOLEAN),
           cancelledMid \in (IF options.cancel_token = "live" THEN BOOLEAN ELSE {FALSE}) :
        \E sel \in (LET found == IF options.plugin_name # ""
                                 THEN select_by_name(registry, options.plugin_name)
                                 ELSE select(registry, options.weights)
                    IN  IF found = {} THEN {{}} ELSE {{p} : p \in found}) :
            LET r == CompressWithOptions(registry, input, options, sel, deadlineFirst,
                                         cancelledMid)
            IN  /\ last' = Outcome("compress_with_options", r.res, r.workers, r.pcalls, 0,
                                   options.cancel_token = "cancelled")
                /\ blob' = IF r.res.ok THEN r.res.val ELSE <<>>
                /\ src' = IF r.res.ok
                          THEN [input |-> input,
                                meta |-> IF options.file_metadata.some
                                         THEN options.file_metadata.m ELSE NoMetadata,
                                by |-> "compress_with_options"]
                          ELSE NoSrc
                /\ flip' = 0
                /\ UNCHANGED registry
                /\ UNCHANGED execVars
                /\ UNCHANGED regVars
                /\ UNCHANGED cancelVars

\* one bit of the container is inverted in storage or transit: in the
\* checksum field or in the checksummed region
FlipBit ==
    /\ blob # <<>>
    /\ flip = 0
    /\ \E pos \in ChecksumBits \cup RegionBits(blob) :
        /\ blob' = FlipAt(blob, pos)
        /\ flip' = pos
    /\ last' = Outcome("flip", Ok(<<>>), 0, 0, 0, FALSE)
    /\ UNCHANGED <<registry, src>>
    /\ UNCHANGED execVars
    /\ UNCHANGED regVars
    /\ UNCHANGED cancelVars

\* decompress(blob); flip = -1 marks a container that was cut short, which
\* can be empty
DoDecompress ==
    /\ blob # <<>> \/ flip = -1
    /\ LET r == Decompress(registry, blob)
       IN  last' = [Outcome("decompress", r.res, 0, 0, r.dcalls, FALSE)
                        EXCEPT !.crcs = r.crcs, !.lookups = r.lookups, !.plugin = r.plugin]
    /\ UNCHANGED <<registry, src, blob, flip>>
    /\ UNCHANGED execVars
    /\ UNCHANGED regVars
    /\ UNCHANGED cancelVars

\* inspect(blob)
DoInspect ==
    /\ blob # <<>> \/ flip = -1
    /\ LET r == Inspect(registry, blob)
       IN  last' = [Outcome("inspect", r.res, 0, 0, r.dcalls, FALSE)
                        EXCEPT !.crcs = r.crcs, !.lookups = r.lookups]
    /\ UNCHANGED <<registry, src, blob, flip>>
    /\ UNCHANGED execVars
    /\ UNCHANGED regVars
    /\ UNCHANGED cancelVars

\* the client drops the container it holds
Discard ==
    /\ blob # <<>>
    /\ blob' = <<>>
    /\ src' = NoSrc
    /\ flip' = 0
    /\ last' = Outcome("none", Ok(<<>>), 0, 0, 0, FALSE)
    /\ UNCHANGED registry
    /\ UNCHANGED execVars
    /\ UNCHANGED regVars
    /\ UNCHANGED cancelVars

Next ==
    \/ InitPlugins
    \/ Discard
    \/ DoCompress
    \/ DoCompressWithOptions
    \/ FlipBit
    \/ DoDecompress
    \/ DoInspect

Spec == Init /\ [][Next]_vars

----------------------------------------------------------------------------
(* Properties of the pipeline (checked under Spec) *)

\* the container as it was before the bit at position flip was inverted
Uncorrupted == IF flip = 0 THEN blob ELSE FlipAt(blob, flip)

\* bit positions of the compressed payload in the container in hand
PayloadBits == (8 * PayloadOffset(src) + 1)..(8 * Len(blob))

\* C1: once init_plugins has succeeded, compress(d) succeeds for every d,
\* the empty sequence included, and decompress of its output succeeds with
\* data equal to d.
C1_Roundtrip ==
    /\ (last.op = "compress" /\ registry.initialized => last.res.ok)
    /\ (last.op = "decompress" /\ src.by = "compress" /\ flip = 0
            => last.res.ok /\ last.res.val.data = src.input)

C1_Witness ==
    /\ last.op = "decompress" /\ src.by = "compress" /\ flip = 0
    /\ Len(src.input) = MaxLen
    /\ last.res.ok

\* C2: a container made by compress or compress_with_options with one bit
\* of its checksummed region inverted makes decompress fail with
\* CrcMismatch, never Ok and never another error.
C2_BitFlipIsCrcMismatch ==
    last.op = "decompress" /\ flip \in RegionBits(blob)
        => ~last.res.ok /\ last.res.err = "CrcMismatch"

C2_Witness ==
    /\ last.op = "decompress" /\ flip \in RegionBits(blob)
    /\ src.by = "compress_with_options" /\ src.meta # NoMetadata
    /\ flip <= 8 * PayloadOffset(src)
    /\ last.res.err = "CrcMismatch"

C4_PreCancelled ==
    last.op = "compress_with_options" /\ last.pre
        => /\ ~last.res.ok /\ last.res.err = "Cancelled"
           /\ last.workers = 0
           /\ last.pcalls = 0

C4_Witness ==
    /\ last.op = "compress_with_options" /\ last.pre
    /\ registry.initialized
    /\ last.res.err = "Cancelled"

----------------------------------------------------------------------------
(* The timeout executor: one run of run_with_timeout_v2 as two threads.    *)
(*                                                                         *)
(* An operation is one of                                                  *)
(*   "value"    returns Ok at once                                         *)
(*   "error"    returns its own error (OperationFailed) at once            *)
(*   "panic"    panics                                                     *)
(*   "hang"     never returns and never polls the flag                     *)
(*   "polling"  works through its chunks and polls the flag before each    *)
(*              read, as DeflatePlugin::compress does                      *)

OpKinds == {"value", "error", "panic", "hang", "polling"}

\* effective_timeout = Duration::MAX: the receive has no deadline
NoDeadlineNever(timeout) == FALSE
NoDeadlineAlways(timeout) == TRUE
NoDeadline(timeout) == timeout = 0

\* the flag as the operation reads it. Under run_with_timeout_and_cancel
\* the caller's token is what the operation polls.
FlagSeenByOperation ==
    cancel_flag \/ (run.via = "compress_with_options" /\ token.some /\ token.cancelled)

\* the worker is inside operation(cancel_flag_thread)
InOperation == worker.pc \in {"op", "check", "loop", "read"}

\* the operation will poll the flag again before it returns
PollAhead ==
    \/ worker.pc \in {"spawned", "check", "loop"} /\ worker.op = "polling"
    \/ worker.pc = "read" /\ worker.chunks > 0

\* let cancel_flag = ...; let (tx, rx) = channel::bounded(1); thread::spawn
Spawn(timeout, via, op, n) ==
    /\ run' = [pc |-> "waiting", timeout |-> timeout, result |-> Err("none"),
               via |-> via, deadline |-> FALSE]
    /\ worker' = [pc |-> "spawned", op |-> op, chunks |-> n, result |-> Err("none"),
                  sent |-> FALSE, after |-> 0, panicked |-> FALSE]
    /\ cancel_flag' = FALSE
    /\ chan' = [slot |-> <<>>, tx |-> TRUE, rx |-> TRUE]

\* run_with_timeout_v2(timeout, operation) is called
StartRun ==
    /\ run.pc = "idle"
    /\ \E timeout \in Timeouts, op \in OpKinds, n \in 0..MaxChunks :
        /\ op # "polling" => n = 0
        /\ Spawn(timeout, "run", op, n)
    /\ UNCHANGED <<registry, token>>
    /\ UNCHANGED pipeVars
    /\ UNCHANGED regVars
    /\ UNCHANGED cancelVars

\* compress_with_options(input, options) is called: up to the spawn of the
\* worker; the input is n chunks long
CallCompressWithOptions ==
    /\ run.pc = "idle"
    /\ \E options \in AllOptions, n \in 0..MaxChunks :
        LET found == IF options.plugin_name # ""
                     THEN select_by_name(registry, options.plugin_name)
                     ELSE select(registry, options.weights)
            early(e) == /\ run' = [pc |-> "returned", timeout |-> options.timeout,
                                   result |-> Err(e), via |-> "compress_with_options",
                                   deadline |-> FALSE]
                        /\ UNCHANGED <<worker, cancel_flag, chan>>
        IN  /\ token' = [some |-> options.cancel_token # "none",
                         cancelled |-> options.cancel_token = "cancelled",
                         mid |-> FALSE]
            /\ IF options.cancel_token = "cancelled" THEN early("Cancelled")
               ELSE IF found = {} THEN early("NotFound")
               ELSE IF \A p \in found : get_plugin_by_magic(registry, p.magic_number) = {}
               THEN early("NotFound")
               ELSE Spawn(options.timeout, "compress_with_options", "polling", n)
    /\ UNCHANGED registry
    /\ UNCHANGED pipeVars
    /\ UNCHANGED regVars
    /\ UNCHANGED cancelVars

\* another thread calls token.cancel() during the call
CancelToken ==
    /\ run.via = "compress_with_options"
    /\ run.pc = "waiting"
    /\ token.some /\ ~token.cancelled
    /\ token' = [token EXCEPT !.cancelled = TRUE, !.mid = PollAhead]
    /\ UNCHANGED <<registry, run, worker, cancel_flag, chan>>
    /\ UNCHANGED pipeVars
    /\ UNCHANGED regVars
    /\ UNCHANGED cancelVars

\* the worker thread starts: the guard is created, the operation is entered
WorkerStart ==
    /\ worker.pc = "spawned"
    /\ worker' = [worker EXCEPT !.pc = IF worker.op = "polling" THEN "check" ELSE "op"]
    /\ UNCHANGED <<registry, run, cancel_flag, chan, token>>
    /\ UNCHANGED pipeVars
    /\ UNCHANGED regVars
    /\ UNCHANGED cancelVars

\* an operation that does not poll returns its value or its error
OpReturn ==
    /\ worker.pc = "op"
    /\ worker.op \in {"value", "error"}
    /\ worker' = [worker EXCEPT !.pc = "send",
                                !.result = IF worker.op = "value" THEN Ok(<<42>>)
                                           ELSE Err("OperationFailed")]
    /\ UNCHANGED <<registry, run, cancel_flag, chan, token>>
    /\ UNCHANGED pipeVars
    /\ UNCHANGED regVars
    /\ UNCHANGED cancelVars

\* the operation panics: the worker unwinds without sending
OpPanic ==
    /\ worker.pc = "op"
    /\ worker.op = "panic"
    /\ worker' = [worker EXCEPT !.pc = "dropguard", !.panicked = TRUE]
    /\ UNCHANGED <<registry, run, cancel_flag, chan, token>>
    /\ UNCHANGED pipeVars
    /\ UNCHANGED regVars
    /\ UNCHANGED cancelVars

\* a plugin that looks at the flag before starting only, not in its loop
OpPollOnlyAtStart ==
    /\ worker.pc \in {"check", "loop"}
    /\ worker' = IF FlagSeenByOperation /\ worker.pc = "check"
                 THEN [worker EXCEPT !.pc = "send", !.result = Err("Cancelled")]
                 ELSE [worker EXCEPT !.pc = IF worker.pc = "check" THEN "loop" ELSE "read"]
    /\ UNCHANGED <<registry, run, cancel_flag, chan, token>>
    /\ UNCHANGED pipeVars
    /\ UNCHANGED regVars
    /\ UNCHANGED cancelVars

\* DeflatePlugin::compress: the check before starting and the check at the
\* head of the loop
OpPoll ==
    /\ worker.pc \in {"check", "loop"}
    /\ worker' = IF FlagSeenByOperation
                 THEN [worker EXCEPT !.pc = "send", !.result = Err("Cancelled")]
                 ELSE [worker EXCEPT !.pc = IF worker.pc = "check" THEN "loop" ELSE "read"]
    /\ UNCHANGED <<registry, run, cancel_flag, chan, token>>
    /\ UNCHANGED pipeVars
    /\ UNCHANGED regVars
    /\ UNCHANGED cancelVars

\* DeflatePlugin::compress: encoder.read of one chunk, or of 0 bytes at the end
OpRead ==
    /\ worker.pc = "read"
    /\ worker' = IF worker.chunks = 0
                 THEN [worker EXCEPT !.pc = "send", !.result = Ok(<<42>>)]
                 ELSE [worker EXCEPT !.pc = "loop", !.chunks = @ - 1,
                                     !.after = IF token.cancelled THEN @ + 1 ELSE @]
    /\ UNCHANGED <<registry, run, cancel_flag, chan, token>>
    /\ UNCHANGED pipeVars
    /\ UNCHANGED regVars
    /\ UNCHANGED cancelVars

\* a send that loses the result once the deadline has passed
WorkerSendLostAtDeadline ==
    /\ worker.pc = "send"
    /\ worker' = [worker EXCEPT !.pc = "dropguard", !.sent = chan.rx]
    /\ chan' = IF chan.rx /\ ~run.deadline THEN [chan EXCEPT !.slot = <<worker.result>>]
               ELSE chan
    /\ UNCHANGED <<registry, run, cancel_flag, token>>
    /\ UNCHANGED pipeVars
    /\ UNCHANGED regVars
    /\ UNCHANGED cancelVars

\* let _ = tx.send(result): fails, ignored, once the receiver is gone
WorkerSend ==
    /\ worker.pc = "send"
    /\ worker' = [worker EXCEPT !.pc = "dropguard", !.sent = chan.rx]
    /\ chan' = IF chan.rx THEN [chan EXCEPT !.slot = <<worker.result>>] ELSE chan
    /\ UNCHANGED <<registry, run, cancel_flag, token>>
    /\ UNCHANGED pipeVars
    /\ UNCHANGED regVars
    /\ UNCHANGED cancelVars

\* a plain store after the send instead of a guard: skipped by an unwind
WorkerStoreAfterSend ==
    /\ worker.pc = "dropguard"
    /\ cancel_flag' = (cancel_flag \/ ~worker.panicked)
    /\ worker' = [worker EXCEPT !.pc = "droptx"]
    /\ UNCHANGED <<registry, run, chan, token>>
    /\ UNCHANGED pipeVars
    /\ UNCHANGED regVars
    /\ UNCHANGED cancelVars

\* TimeoutGuard::drop at the end of the worker's scope
WorkerDropGuard ==
    /\ worker.pc = "dropguard"
    /\ cancel_flag' = TRUE
    /\ worker' = [worker EXCEPT !.pc = "droptx"]
    /\ UNCHANGED <<registry, run, chan, token>>
    /\ UNCHANGED pipeVars
    /\ UNCHANGED regVars
    /\ UNCHANGED cancelVars

\* the closure's captures are dropped: the sender disconnects
WorkerDropTx ==
    /\ worker.pc = "droptx"
    /\ chan' = [chan EXCEPT !.tx = FALSE]
    /\ worker' = [worker EXCEPT !.pc = "exited"]
    /\ UNCHANGED <<registry, run, cancel_flag, token>>
    /\ UNCHANGED pipeVars
    /\ UNCHANGED regVars
    /\ UNCHANGED cancelVars

\* wall-clock time reaches the deadline of the receive
DeadlineElapses ==
    /\ run.pc = "waiting"
    /\ ~NoDeadline(run.timeout)
    /\ ~run.deadline
    /\ run' = [run EXCEPT !.deadline = TRUE]
    /\ UNCHANGED <<registry, worker, cancel_flag, chan, token>>
    /\ UNCHANGED pipeVars
    /\ UNCHANGED regVars
    /\ UNCHANGED cancelVars

\* rx.recv_timeout(effective_timeout) and the match on its result: a
\* message in the slot is taken first, then a disconnected channel is
\* reported, then the deadline
RecvOutcomeNoDisconnect(ch, deadline) ==
    IF ch.slot # <<>> THEN [returns |-> TRUE, result |-> ch.slot[1]]
    ELSE IF deadline THEN [returns |-> TRUE, result |-> Err("Timeout")]
    ELSE [returns |-> FALSE, result |-> Err("none")]

RecvOutcomeDeadlineFirst(ch, deadline) ==
    IF deadline THEN [returns |-> TRUE, result |-> Err("Timeout")]
    ELSE IF ch.slot # <<>> THEN [returns |-> TRUE, result |-> ch.slot[1]]
    ELSE IF ~ch.tx THEN [returns |-> TRUE, result |-> Err("PluginPanic")]
    ELSE [returns |-> FALSE, result |-> Err("none")]

RecvOutcome(ch, deadline) ==
    IF ch.slot # <<>> THEN [returns |-> TRUE, result |-> ch.slot[1]]
    ELSE IF ~ch.tx THEN [returns |-> TRUE, result |-> Err("PluginPanic")]
    ELSE IF deadline THEN [returns |-> TRUE, result |-> Err("Timeout")]
    ELSE [returns |-> FALSE, result |-> Err("none")]

\* the caller's receive returns and run returns to its caller; rx is dropped
CallerReturn ==
    /\ run.pc = "waiting"
    /\ RecvOutcome(chan, run.deadline).returns
    /\ run' = [run EXCEPT !.pc = "returned", !.result = RecvOutcome(chan, run.deadline).result]
    /\ chan' = [chan EXCEPT !.slot = <<>>, !.rx = FALSE]
    /\ UNCHANGED <<registry, worker, cancel_flag, token>>
    /\ UNCHANGED pipeVars
    /\ UNCHANGED regVars
    /\ UNCHANGED cancelVars

WorkerStep ==
    \/ WorkerStart
    \/ OpReturn
    \/ OpPanic
    \/ OpPoll
    \/ OpRead
    \/ WorkerSend
    \/ WorkerDropGuard
    \/ WorkerDropTx

ExecNext ==
    \/ InitPlugins
    \/ StartRun
    \/ CallCompressWithOptions
    \/ CancelToken
    \/ WorkerStep
    \/ DeadlineElapses
    \/ CallerReturn

\* the worker thread and the caller are scheduled, and time passes
ExecFairness ==
    /\ WF_vars(WorkerStep)
    /\ WF_vars(DeadlineElapses)
    /\ WF_vars(CallerReturn)

ExecSpec == Init /\ [][ExecNext]_vars /\ ExecFairness

----------------------------------------------------------------------------
(* Properties of the executor (checked under ExecSpec) *)

Returned == run.pc = "returned"
Waiting == run.pc = "waiting"

\* C5: when another thread cancels the caller's token while the plugin runs
\* on the worker with a poll still ahead, the plugin reads at most one more
\* chunk and never completes with Ok, compress_with_options returns, and
\* what it returns is Cancelled unless its own deadline was observed first.
C5_CancelMidRun ==
    /\ [](token.mid => worker.after <= 1 /\ ~worker.result.ok)
    /\ [](token.mid /\ Returned /\ run.result # Err("Timeout")
              => run.result = Err("Cancelled"))
    /\ [](token.mid /\ Returned /\ run.timeout = 0 => run.result = Err("Cancelled"))
    /\ (token.mid ~> Returned)

C5_Witness ==
    /\ token.mid /\ Returned
    /\ run.result = Err("Cancelled")
    /\ worker.after = 1
    /\ worker.chunks > 0

\* C6: with a non-zero timeout, a receive that observes the deadline while
\* the worker has delivered nothing returns Timeout, and run returns to its
\* caller even when the operation never terminates.
C6_DeadlineReturnsTimeout ==
    /\ [][Waiting /\ run'.pc = "returned" /\ run.timeout # 0 /\ run.deadline
              /\ chan.slot = <<>> /\ chan.tx
            => run'.result = Err("Timeout")]_vars
    /\ [](Returned /\ worker.op = "hang"
              => run.timeout # 0 /\ run.result = Err("Timeout"))
    /\ ((Waiting /\ run.timeout # 0) ~> Returned)

C6_Witness ==
    /\ Returned /\ run.timeout # 0
    /\ worker.op = "hang"
    /\ run.result = Err("Timeout")

\* C7: with a timeout of zero run never returns Timeout; it returns only
\* once the worker has delivered a result or has terminated, and then it
\* does return.
C7_ZeroNeverTimesOut ==
    /\ [](run.timeout = 0 /\ Returned /\ worker.pc # "none"
              => /\ run.result # Err("Timeout")
                 /\ worker.sent \/ worker.pc = "exited")
    /\ [](run.timeout = 0 => ~run.deadline)
    /\ ((run.timeout = 0 /\ Waiting /\ (chan.slot # <<>> \/ ~chan.tx)) ~> Returned)

C7_Witness ==
    /\ run.timeout = 0 /\ Returned
    /\ worker.op = "polling" /\ worker.sent
    /\ run.result.ok

\* C8: a result the worker delivered before the receive returned is what run
\* returns, unchanged: the value as Ok, the operation's own error as that
\* error.
C8_ResultUnchanged ==
    Returned /\ worker.sent => run.result = worker.result

C8_Witness ==
    /\ Returned /\ worker.sent
    /\ run.deadline
    /\ run.result = Err("OperationFailed")

\* C9: a worker that panics without delivering makes run return PluginPanic
\* unless the deadline was observed first; the caller is never left
\* blocked, a timeout of zero included.
C9_PanicIsPluginPanic ==
    /\ [][Waiting /\ run'.pc = "returned" /\ worker.panicked /\ ~chan.tx
            => run'.result = Err("PluginPanic")]_vars
    /\ [](Returned /\ worker.op = "panic"
              => \/ run.result = Err("PluginPanic")
                 \/ run.timeout # 0 /\ run.result = Err("Timeout"))
    /\ ((Waiting /\ worker.op = "panic") ~> Returned)

C9_Witness ==
    /\ Returned /\ run.timeout = 0
    /\ worker.panicked
    /\ run.result = Err("PluginPanic")

\* C10: when run has returned Timeout and the worker is still executing the
\* operation, the cancellation flag handed to the operation is set.
C10_AbandonedWorkerIsCancelled ==
    Returned /\ run.result = Err("Timeout") /\ InOperation => cancel_flag

\* C11: once the worker thread has finished, whether the operation returned
\* or panicked, the cancellation flag created for that run is true; the flag
\* is set by the step that ends the worker's scope and never goes back.
C11_FlagSetWhenWorkerEnds ==
    /\ [](worker.pc \in {"droptx", "exited"} => cancel_flag)
    /\ [][worker.pc = "dropguard" /\ worker'.pc # "dropguard" => cancel_flag']_vars
    /\ [][cancel_flag => cancel_flag']_vars

C11_Witness ==
    /\ worker.pc = "exited"
    /\ worker.panicked
    /\ cancel_flag

\* C12: no result is dropped at the timeout boundary. A receive that returns
\* while a result is in the slot returns that result, even when the deadline
\* has already passed; Timeout is returned only from an empty slot with the
\* deadline passed; a result the worker handed to a receiver still present
\* is never answered by Timeout.
C12_NoResultDroppedAtBoundary ==
    /\ [][Waiting /\ run'.pc = "returned" /\ chan.slot # <<>>
            => run'.result = chan.slot[1]]_vars
    /\ [][Waiting /\ run'.pc = "returned" /\ run'.result = Err("Timeout")
            => chan.slot = <<>> /\ run.deadline]_vars
    /\ [](Returned /\ worker.sent => run.result # Err("Timeout"))

C12_Witness ==
    /\ Returned /\ run.deadline
    /\ worker.sent
    /\ run.result = Ok(<<42>>)

----------------------------------------------------------------------------
(* The registry and the selector: init_plugins step by step under the      *)
(* write lock, the calls of the client under the read lock.                *)

\* sequences without repetition over S, of length n
RECURSIVE DistinctSeqs(_, _)
DistinctSeqs(S, n) ==
    IF n = 0 THEN {<<>>}
    ELSE UNION {{Append(q, x) : x \in S \ {q[i] : i \in 1..Len(q)}} :
                    q \in DistinctSeqs(S, n - 1)}

\* the lists of linked plugins: accepted descriptors only, or at most one
\* accepted descriptor and then a rejected one, at which the enumeration stops
AlgorithmLists ==
    UNION {DistinctSeqs(PluginPool, n) : n \in 0..MaxStatics}
    \cup {prefix \o <<d>> : prefix \in DistinctSeqs(PluginPool, 0) \cup DistinctSeqs(PluginPool, 1),
                            d \in RejectedPool}

\* weights handed to the selector, a tie-making pair included
SelectWeights == WeightChoices \cup {[throughput |-> 500, compression_ratio |-> 500]}

\* weights handed to calculate_plugin_score directly: the fields are public,
\* so they need not have passed ScoringWeights::new
ScoreWeights ==
    SelectWeights \cup {[throughput |-> 600, compression_ratio |-> 600],
                         [throughput |-> NaN, compression_ratio |-> 500],
                         [throughput |-> 0 - 100, compression_ratio |-> 1100]}

\* options of the client's compress_with_options calls
RegOptions ==
    {o \in AllOptions : o.timeout = 0 /\ ~o.file_metadata.some /\ o.cancel_token # "live"}

RegInit ==
    /\ registry = NoRegistry
    /\ algorithms \in AlgorithmLists
    /\ CancelIdle
    /\ PipeIdle
    /\ ExecIdle
    /\ RegIdle

\* PLUGIN_REGISTRY.write() has been granted to no thread
WriteUnlocked == \A u \in Threads : writer[u].pc = "none"

\* a read() that does not wait for the writer
ReadLockedNever == TRUE

\* PLUGIN_REGISTRY.read() is granted: no thread holds the write lock
ReadLocked == \A u \in Threads : writer[u].pc = "none"

\* the client is between two calls
ClientIdle == seen.op # "cwo_selected" /\ writer["client"].pc = "none"

Call(op, arg, res) ==
    [op |-> op, arg |-> arg, res |-> res, listed |-> list_plugins(registry),
     fresh |-> ~registry.present, at |-> hist.committed]

\* init_plugins: the write lock is taken, the registry created if absent
InitAcquire(t) ==
    /\ t = "client" => ClientIdle
    /\ WriteUnlocked
    /\ writer' = [writer EXCEPT ![t] = [pc |-> "clear", i |-> 1]]
    /\ registry' = [registry EXCEPT !.present = TRUE]
    /\ UNCHANGED <<algorithms, seen, hist>>
    /\ UNCHANGED pipeVars
    /\ UNCHANGED execVars
    /\ UNCHANGED cancelVars

\* a re-initialisation that clears and does not scan again
InitClearNoRescan(t) ==
    /\ writer[t].pc = "clear"
    /\ registry' = IF registry.initialized THEN Clear(registry) ELSE registry
    /\ writer' = [writer EXCEPT ![t] = [pc |-> "register",
                                        i |-> IF registry.initialized
                                              THEN Len(algorithms) + 1 ELSE 1]]
    /\ UNCHANGED <<algorithms, seen, hist>>
    /\ UNCHANGED pipeVars
    /\ UNCHANGED execVars
    /\ UNCHANGED cancelVars

\* init_plugins: if registry.initialized { registry.clear() }
InitClear(t) ==
    /\ writer[t].pc = "clear"
    /\ registry' = IF registry.initialized THEN Clear(registry) ELSE registry
    /\ writer' = [writer EXCEPT ![t] = [pc |-> "register", i |-> 1]]
    /\ UNCHANGED <<algorithms, seen, hist>>
    /\ UNCHANGED pipeVars
    /\ UNCHANGED execVars
    /\ UNCHANGED cancelVars

\* init_plugins: one turn of the loop, registry.register(plugin)?; an error
\* returns at once and releases the lock
InitRegister(t) ==
    /\ writer[t].pc = "register"
    /\ writer[t].i <= Len(algorithms)
    /\ LET r == Register(registry, algorithms[writer[t].i])
       IN  /\ registry' = r.reg
           /\ IF r.res.ok
              THEN /\ writer' = [writer EXCEPT ![t].i = @ + 1]
                   /\ UNCHANGED <<seen, hist>>
              ELSE /\ writer' = [writer EXCEPT ![t] = [pc |-> "none", i |-> 0]]
                   /\ hist' = [hist EXCEPT !.committed = r.reg]
                   /\ seen' = IF t = "client"
                              THEN [Call("init", <<>>, r.res) EXCEPT !.listed = r.reg.plugins]
                              ELSE seen
    /\ UNCHANGED algorithms
    /\ UNCHANGED pipeVars
    /\ UNCHANGED execVars
    /\ UNCHANGED cancelVars

\* init_plugins: registry.initialized = true; Ok(()); the lock is released
InitFinish(t) ==
    /\ writer[t].pc = "register"
    /\ writer[t].i > Len(algorithms)
    /\ registry' = [registry EXCEPT !.initialized = TRUE]
    /\ writer' = [writer EXCEPT ![t] = [pc |-> "none", i |-> 0]]
    /\ hist' = [committed |-> registry',
                first |-> IF hist.inits = "none" THEN registry.plugins ELSE hist.first,
                inits |-> IF hist.inits = "none" THEN "once" ELSE "again"]
    /\ seen' = IF t = "client"
               THEN [Call("init", <<>>, Ok(<<>>)) EXCEPT !.listed = registry.plugins]
               ELSE seen
    /\ UNCHANGED algorithms
    /\ UNCHANGED pipeVars
    /\ UNCHANGED execVars
    /\ UNCHANGED cancelVars

\* list_plugins()
ListPlugins ==
    /\ ClientIdle /\ ReadLocked
    /\ seen' = Call("list", <<>>, list_plugins(registry))
    /\ UNCHANGED <<registry, algorithms, writer, hist>>
    /\ UNCHANGED pipeVars
    /\ UNCHANGED execVars
    /\ UNCHANGED cancelVars

\* get_plugin_by_magic(magic), get_default_plugin()
GetPluginByMagic ==
    /\ ClientIdle /\ ReadLocked
    /\ \/ \E magic \in Magics :
            seen' = Call("get", magic, get_plugin_by_magic(registry, magic))
       \/ seen' = Call("get_default", <<>>, get_default_plugin(registry))
    /\ UNCHANGED <<registry, algorithms, writer, hist>>
    /\ UNCHANGED pipeVars
    /\ UNCHANGED execVars
    /\ UNCHANGED cancelVars

\* PluginSelector::new(weights).select()
Select ==
    /\ ClientIdle /\ ReadLocked
    /\ \E weights \in SelectWeights :
        IF select(registry, weights) = {}
        THEN seen' = Call("select", weights, Err("NotFound"))
        ELSE \E p \in select(registry, weights) : seen' = Call("select", weights, Ok(p))
    /\ UNCHANGED <<registry, algorithms, writer, hist>>
    /\ UNCHANGED pipeVars
    /\ UNCHANGED execVars
    /\ UNCHANGED cancelVars

\* PluginSelector::select_by_name(name)
SelectByName ==
    /\ ClientIdle /\ ReadLocked
    /\ \E name \in PluginNames \ {""} :
        IF select_by_name(registry, name) = {}
        THEN seen' = Call("select_by_name", name, Err("NotFound"))
        ELSE \E p \in select_by_name(registry, name) :
                 seen' = Call("select_by_name", name, Ok(p))
    /\ UNCHANGED <<registry, algorithms, writer, hist>>
    /\ UNCHANGED pipeVars
    /\ UNCHANGED execVars
    /\ UNCHANGED cancelVars

\* calculate_plugin_score(plugin, all_plugins, weights), a pure function:
\* for a candidate set of one descriptor of any kind (the registry plays no
\* part: taken while it is still absent), or for the listed set
Score ==
    /\ ClientIdle /\ ReadLocked
    /\ \E weights \in ScoreWeights :
        \/ \E p \in PluginPool \cup RejectedPool :
              /\ ~registry.present
              /\ seen' = Call("score", [plugin |-> p, all_plugins |-> {p}, weights |-> weights],
                              calculate_plugin_score(p, {p}, weights))
        \/ \E p \in list_plugins(registry) :
              seen' = Call("score", [plugin |-> p, all_plugins |-> list_plugins(registry),
                                     weights |-> weights],
                           calculate_plugin_score(p, list_plugins(registry), weights))
    /\ UNCHANGED <<registry, algorithms, writer, hist>>
    /\ UNCHANGED pipeVars
    /\ UNCHANGED execVars
    /\ UNCHANGED cancelVars

\* compress(input) of the empty input, as far as the registry matters
CompressCall ==
    /\ ClientIdle /\ ReadLocked
    /\ seen' = Call("compress", <<>>, Compress(registry, <<>>).res)
    /\ UNCHANGED <<registry, algorithms, writer, hist>>
    /\ UNCHANGED pipeVars
    /\ UNCHANGED execVars
    /\ UNCHANGED cancelVars

\* compress_with_options(input, options) up to the selector's answer: the
\* token check, then select or select_by_name under the read lock
CwoSelect ==
    /\ ClientIdle /\ ReadLocked
    /\ \E options \in RegOptions :
        LET found == IF options.plugin_name # ""
                     THEN select_by_name(registry, options.plugin_name)
                     ELSE select(registry, options.weights)
        IN  IF options.cancel_token = "cancelled" \/ found = {}
            THEN seen' = Call("cwo", options,
                              CompressWithOptions(registry, <<>>, options, {},
                                                  FALSE, FALSE).res)
            ELSE \E p \in found :
                     seen' = Call("cwo_selected", [options |-> options, selected |-> p],
                                  Ok(<<>>))
    /\ UNCHANGED <<registry, algorithms, writer, hist>>
    /\ UNCHANGED pipeVars
    /\ UNCHANGED execVars
    /\ UNCHANGED cancelVars

\* compress_with_options from get_plugin_by_magic, a second read of the
\* registry, to the assembled output
CwoLookup ==
    /\ seen.op = "cwo_selected"
    /\ ReadLocked
    /\ seen' = [seen EXCEPT !.op = "cwo",
                            !.arg = seen.arg.options,
                            !.res = CompressWithOptions(registry, <<>>, seen.arg.options,
                                                        {seen.arg.selected},
                                                        FALSE, FALSE).res]
    /\ UNCHANGED <<registry, algorithms, writer, hist>>
    /\ UNCHANGED pipeVars
    /\ UNCHANGED execVars
    /\ UNCHANGED cancelVars

RegNext ==
    \/ \E t \in Threads : InitAcquire(t)
    \/ \E t \in Threads : InitClear(t)
    \/ \E t \in Threads : InitRegister(t)
    \/ \E t \in Threads : InitFinish(t)
    \/ ListPlugins
    \/ GetPluginByMagic
    \/ Select
    \/ SelectByName
    \/ Score
    \/ CompressCall
    \/ CwoSelect
    \/ CwoLookup

RegSpec == RegInit /\ [][RegNext]_vars

----------------------------------------------------------------------------
(* Properties of the registry and the selector (checked under RegSpec) *)

\* the descriptor enumerated first among those that declare identifier m
FirstEnumerated(m) ==
    algorithms[SetMin({i \in 1..Len(algorithms) : algorithms[i].magic_number = m})]

\* two linked plugins declare the same identifier
HasDuplicate ==
    \E i, j \in 1..Len(algorithms) :
        i < j /\ algorithms[i].magic_number = algorithms[j].magic_number

\* C13: in every state, the middle of an init included, no two registry
\* entries share an identifier; once an init has succeeded each identifier
\* declared in the list is held by the plugin enumerated first with it; and
\* an init over a list whose only defect is a duplicate succeeds.
C13_FirstRegisteredWins ==
    /\ \A p, q \in registry.plugins : p.magic_number = q.magic_number => p = q
    /\ registry.initialized =>
           /\ \A p \in registry.plugins : p = FirstEnumerated(p.magic_number)
           /\ \A i \in 1..Len(algorithms) :
                  RegistryGet(registry, algorithms[i].magic_number) # {}
    /\ (seen.op = "init" /\ (\A i \in 1..Len(algorithms) : ValidDescriptor(algorithms[i]))
            => seen.res.ok)

C13_Witness ==
    /\ seen.op = "init" /\ seen.res.ok
    /\ HasDuplicate
    /\ WriteUnlocked /\ hist.inits = "again"
    /\ algorithms[1] = ShadowPlugin
    /\ registry.plugins = {ShadowPlugin, ZstdPlugin}

\* what the claim calls a structurally invalid descriptor: empty name, empty
\* version, throughput <= 0, or a ratio that is not in (0, 1]
StructurallyInvalid(m) ==
    \/ m.name = ""
    \/ m.version = ""
    \/ FLe(m.throughput, 0)
    \/ ~(FGt(m.compression_ratio, 0) /\ FLe(m.compression_ratio, 100))

\* C14: init fails, with InvalidMetadata, if and only if some linked
\* plugin's descriptor is structurally invalid.
C14_InitFailsIffInvalid ==
    seen.op = "init" =>
        /\ seen.res.ok \/ seen.res = Err("InvalidMetadata")
        /\ seen.res = Err("InvalidMetadata")
               <=> \E i \in 1..Len(algorithms) : StructurallyInvalid(algorithms[i])

\* C15: after the first successful init, whenever the registry is marked
\* initialized, after any number of further inits, it holds exactly the
\* entries it held after the first; and every completed re-init leaves it
\* initialized.
C15_ReinitRebuildsTheSame ==
    /\ (registry.initialized /\ hist.inits # "none" => registry.plugins = hist.first)
    /\ (WriteUnlocked /\ hist.inits # "none" =>
            registry.initialized /\ list_plugins(registry) = hist.first)

C15_Witness ==
    /\ hist.inits = "again"
    /\ WriteUnlocked
    /\ Cardinality(hist.first) = MaxStatics
    /\ registry.plugins = hist.first

\* C16: a list or lookup call returns what the registry held at a release
\* of the write lock, the contents before or after an init and never those
\* of an init in progress; and at most one thread is inside init.
C16_ReadersSeeWholeInits ==
    /\ seen.op \in {"list", "get", "get_default"} => seen.listed = list_plugins(seen.at)
    /\ seen.op = "list" => seen.res = list_plugins(seen.at)
    /\ seen.op = "get" => seen.res = get_plugin_by_magic(seen.at, seen.arg)
    /\ seen.op = "get_default" => seen.res = get_default_plugin(seen.at)
    /\ Cardinality({t \in Threads : writer[t].pc # "none"}) <= 1
    /\ WriteUnlocked => registry = hist.committed

C16_Witness ==
    /\ seen.op = "list"
    /\ Cardinality(seen.res) > 1
    /\ hist.inits = "once"
    /\ writer["other"].pc = "register" /\ writer["other"].i = 1
    /\ registry.plugins = {}

\* the part of C17 about list, lookup and compress: a call made while the
\* registry is still absent lists nothing, finds nothing, and compress
\* returns the error value NotFound
BeforeInitReads ==
    seen.fresh =>
        /\ seen.op = "list" => seen.res = {}
        /\ seen.op \in {"get", "get_default"} => seen.res = {}
        /\ seen.op = "compress" => seen.res = Err("NotFound")

\* C17 as stated: before the first init list returns nothing, lookups find
\* nothing, and compress and compress_with_options fail with NotFound.
C17_BeforeInitNotFound ==
    /\ BeforeInitReads
    /\ (seen.fresh /\ seen.op = "cwo" => seen.res = Err("NotFound"))

\* C17 amended: as stated, except that compress_with_options called with an
\* already cancelled token fails with Cancelled, the token being checked
\* before the selector is asked; with any other token it fails with NotFound.
C17_BeforeInitNotFoundUnlessCancelled ==
    /\ BeforeInitReads
    /\ (seen.fresh /\ seen.op = "cwo" =>
            seen.res = IF seen.arg.cancel_token = "cancelled"
                       THEN Err("Cancelled") ELSE Err("NotFound"))
    /\ (seen.fresh => seen.op # "cwo_selected")

C17_Witness ==
    /\ seen.fresh
    /\ seen.op = "cwo"
    /\ seen.arg.cancel_token = "none"
    /\ seen.arg.plugin_name = ""
    /\ seen.res = Err("NotFound")
    /\ Len(algorithms) = MaxStatics

\* the score of p among the plugins listed at the call
ScoreAtCall(p) == calculate_plugin_score(p, seen.listed, seen.arg)

\* C18: select returns a listed plugin that no listed plugin outscores and
\* that no equally scored listed plugin precedes by name; it fails, with
\* NotFound, exactly when nothing is listed; and when the listed names are
\* unique every iteration order of the registry gives the same answer.
C18_SelectIsBest ==
    /\ seen.op = "select" =>
           /\ seen.res = Err("NotFound") <=> seen.listed = {}
           /\ seen.res.ok \/ seen.res = Err("NotFound")
           /\ seen.res.ok =>
                  /\ seen.res.val \in seen.listed
                  /\ \A q \in seen.listed :
                         /\ PartialCmp(ScoreAtCall(q), ScoreAtCall(seen.res.val)) # "Greater"
                         /\ PartialCmp(ScoreAtCall(q), ScoreAtCall(seen.res.val)) = "Equal"
                                => ~NameLess(q.name, seen.res.val.name)
    /\ \A weights \in SelectWeights :
           (\A p, q \in list_plugins(hist.committed) : p.name = q.name => p = q)
               => Cardinality(select(hist.committed, weights)) <= 1

\* the identifier at the head of a container
OutputIdentifier(bytes) == SubSeq(bytes, 1, 4)

\* the listed plugins named as the options ask
NamedAtCall == {p \in seen.listed : p.name = seen.arg.plugin_name}

\* C19 as stated: with plugin_name = n, compress_with_options succeeds with
\* the identifier of a registered plugin named n when there is one,
\* whatever the weights, and fails with NotFound when there is none.
C19_NameOverride ==
    seen.op = "cwo" /\ seen.arg.plugin_name # "" =>
        IF NamedAtCall # {}
        THEN /\ seen.res.ok
             /\ OutputIdentifier(seen.res.val) \in {p.magic_number : p \in NamedAtCall}
        ELSE seen.res = Err("NotFound")

\* C19 amended: as stated for a token that is not already cancelled; with
\* an already cancelled token the call fails with Cancelled before any
\* selection, whether or not a plugin is named n.
C19_NameOverrideUnlessCancelled ==
    seen.op = "cwo" /\ seen.arg.plugin_name # "" =>
        IF seen.arg.cancel_token = "cancelled" THEN seen.res = Err("Cancelled")
        ELSE IF NamedAtCall # {}
        THEN /\ seen.res.ok
             /\ OutputIdentifier(seen.res.val) \in {p.magic_number : p \in NamedAtCall}
        ELSE seen.res = Err("NotFound")

C19_Witness ==
    /\ seen.op = "cwo"
    /\ seen.arg.plugin_name = "zstd"
    /\ seen.arg.weights.throughput = 700
    /\ seen.arg.cancel_token = "none"
    /\ seen.listed = {DeflatePlugin, ZstdPlugin}
    /\ seen.res.ok
    /\ OutputIdentifier(seen.res.val) = ZSTD_MAGIC

\* C20: for a candidate set of exactly one plugin the score is exactly 1.0,
\* whatever the weights (valid or not) and whatever the plugin's throughput
\* and ratio.
C20_SinglePluginScoresOne ==
    seen.op = "score" /\ Cardinality(seen.arg.all_plugins) = 1 => seen.res = <<1, 1>>

C20_Witness ==
    /\ seen.op = "score"
    /\ seen.arg.all_plugins = {seen.arg.plugin}
    /\ seen.arg.weights = [throughput |-> 600, compression_ratio |-> 600]
    /\ seen.arg.plugin.compression_ratio = 150
    /\ seen.res = <<1, 1>>

----------------------------------------------------------------------------
(* Containers: the pipeline with a second plugin linked, with containers  *)
(* that were not made by compress (any bytes can be handed to decompress  *)
(* and inspect), and with containers cut short.                           *)

ContainerAlgorithms == {<<DeflatePlugin>>, <<DeflatePlugin, ZstdPlugin>>}

ContainerInit ==
    /\ registry = NoRegistry
    /\ algorithms \in ContainerAlgorithms
    /\ CancelIdle
    /\ PipeIdle
    /\ ExecIdle
    /\ RegIdle

\* identifiers of hand-made headers: the two plugins', one with a foreign
\* prefix, one with a foreign prefix and version, one with a foreign version
BAD_PREFIX_MAGIC == <<67, 83, 1, 0>>
BAD_BOTH_MAGIC == <<66, 82, 2, 0>>
BAD_VERSION_MAGIC == <<67, 82, 2, 0>>
ForgedMagics == {DEFLATE_MAGIC, ZSTD_MAGIC, BAD_PREFIX_MAGIC, BAD_BOTH_MAGIC, BAD_VERSION_MAGIC}

\* flag bytes of hand-made headers: none, checksum, metadata, both
ForgedFlags == {0, HAS_CRC32, HAS_METADATA, HAS_CRC32 + HAS_METADATA}

ForgedMeta == [mtime |-> I64LE(-2), permissions |-> <<>>]

\* a container put together by hand: any identifier, a declared size that
\* is the length of the encoded data or one more, the payload encoded as
\* the plugin of that identifier would, the checksum (if any) correct
Forged(magic, input, size, flags) ==
    LET h == [magic |-> magic, original_size |-> U64LE(size), flags |-> flags,
              reserved |-> <<0, 0, 0>>]
        payload == IF magic = DEFLATE_MAGIC THEN DeflateEncode(input)
                   ELSE ForeignEncode([magic_number |-> magic], input)
        region == (IF has_metadata(h)
                   THEN U16LE(Len(MetaToBytes(ForgedMeta))) \o MetaToBytes(ForgedMeta)
                   ELSE <<>>) \o payload
    IN  to_bytes(h) \o (IF has_crc32(h) THEN Crc32(region) ELSE <<>>) \o region

Forge ==
    /\ blob = <<>> /\ flip = 0
    /\ \E magic \in ForgedMagics, input \in Inputs, flags \in ForgedFlags :
        \E size \in {Len(input), Len(input) + 1} :
            /\ blob' = Forged(magic, input, size, flags)
            /\ src' = [input |-> input,
                       meta |-> IF flags >= HAS_METADATA THEN ForgedMeta ELSE NoMetadata,
                       by |-> "forge"]
    /\ flip' = 0
    /\ last' = Outcome("forge", Ok(<<>>), 0, 0, 0, FALSE)
    /\ UNCHANGED registry
    /\ UNCHANGED execVars
    /\ UNCHANGED regVars
    /\ UNCHANGED cancelVars

\* the container in hand loses its end: a proper prefix of it remains
Truncate ==
    /\ blob # <<>>
    /\ flip = 0
    /\ \E n \in 0..(Len(blob) - 1) : blob' = SubSeq(blob, 1, n)
    /\ flip' = -1
    /\ last' = Outcome("truncate", Ok(<<>>), 0, 0, 0, FALSE)
    /\ UNCHANGED <<registry, src>>
    /\ UNCHANGED execVars
    /\ UNCHANGED regVars
    /\ UNCHANGED cancelVars

ContainerNext ==
    \/ InitPlugins
    \/ Discard
    \/ DoCompress
    \/ DoCompressWithOptions
    \/ Forge
    \/ Truncate
    \/ DoDecompress
    \/ DoInspect

ContainerSpec == ContainerInit /\ [][ContainerNext]_vars

----------------------------------------------------------------------------
(* The pure functions of the selector, each applied to arguments drawn at *)
(* the start: calculate_plugin_score on any candidate slice (valid or     *)
(* not, the plugin in it or not) and any weights, ScoringWeights::new on  *)
(* any pair of numbers.                                                   *)

\* candidates handed to calculate_plugin_score
ScoreCandidates ==
    {DeflatePlugin, ZstdPlugin, Lz4Plugin, ShadowPlugin, SameSpeedPlugin, TwinPlugin}

\* arguments of ScoringWeights::new, in units of 1e-8: NaN, -0.1, 0.0, 0.3,
\* 0.5, 0.6, 0.7, 1.0, 1.1 and the values about 1e-6 away from 0.3
WeightArgs ==
    {NaN, 0 - 10000000, 0, 30000000, 50000000, 60000000, 70000000, 100000000,
     110000000, 29999899, 29999900, 30000100, 30000101}

SelectorArgs ==
    {[op |-> "score_args",
      arg |-> [plugin |-> p, all_plugins |-> S, weights |-> w]] :
         p \in ScoreCandidates, S \in SUBSET ScoreCandidates, w \in ScoreWeights}
    \cup {[op |-> "new_args", arg |-> [throughput |-> t, compression_ratio |-> r]] :
              t \in WeightArgs, r \in WeightArgs}

SelectorInit ==
    /\ registry = NoRegistry
    /\ algorithms = COMPRESSION_ALGORITHMS
    /\ CancelIdle
    /\ PipeIdle /\ ExecIdle
    /\ writer = NoWriter /\ hist = NoHist
    /\ \E a \in SelectorArgs : seen = [NoSeen EXCEPT !.op = a.op, !.arg = a.arg]

\* calculate_plugin_score(plugin, all_plugins, weights)
CalculatePluginScore ==
    /\ seen.op = "score_args"
    /\ seen' = [seen EXCEPT !.op = "score",
                            !.res = calculate_plugin_score(seen.arg.plugin,
                                                           seen.arg.all_plugins,
                                                           seen.arg.weights)]
    /\ UNCHANGED <<registry, algorithms, writer, hist>>
    /\ UNCHANGED pipeVars
    /\ UNCHANGED execVars
    /\ UNCHANGED cancelVars

\* ScoringWeights::new(throughput, compression_ratio)
NewWeights ==
    /\ seen.op = "new_args"
    /\ seen' = [seen EXCEPT !.op = "new",
                            !.res = ScoringWeightsNew(seen.arg.throughput,
                                                      seen.arg.compression_ratio)]
    /\ UNCHANGED <<registry, algorithms, writer, hist>>
    /\ UNCHANGED pipeVars
    /\ UNCHANGED execVars
    /\ UNCHANGED cancelVars

SelectorNext ==
    \/ CalculatePluginScore
    \/ NewWeights

SelectorSpec == SelectorInit /\ [][SelectorNext]_vars

\* weights as the claim calls valid: not negative and summing to 1
ValidWeights(w) ==
    /\ w.throughput # NaN /\ w.compression_ratio # NaN
    /\ w.throughput >= 0 /\ w.compression_ratio >= 0
    /\ w.throughput + w.compression_ratio = ONE

\* the candidates all have the throughput, or the ratio, of p
AllSameThroughput(p, S) == \A q \in S : q.throughput = p.throughput
AllSameRatio(p, S) == \A q \in S : q.compression_ratio = p.compression_ratio

Negative(x) == x # NaN /\ x < 0
OffOne(t, r) ==
    /\ t # NaN /\ r # NaN
    /\ (t + r - W_ONE > W_EPSILON \/ W_ONE - (t + r) > W_EPSILON)

----------------------------------------------------------------------------
(* Properties of containers (checked under ContainerSpec) *)

\* the last call was decompress or inspect
Decoding == last.op \in {"decompress", "inspect"}

\* what the first bytes of the input in hand are
ForeignPrefix == SubSeq(blob, 1, 2) # MAGIC_PREFIX
ForeignVersion == blob[3] # VERSION

\* C23: an input shorter than 16 bytes fails with InvalidHeader; with 16
\* bytes or more, a foreign prefix fails with InvalidMagic whatever the
\* version byte, and a foreign version after the right prefix fails with
\* InvalidHeader; in these cases no checksum is computed, no plugin looked
\* up and none invoked.
C23_HeaderRejection ==
    Decoding =>
        /\ Len(blob) < SIZE => ~last.res.ok /\ last.res.err = "InvalidHeader"
        /\ Len(blob) >= SIZE /\ ForeignPrefix
               => ~last.res.ok /\ last.res.err = "InvalidMagic"
        /\ Len(blob) >= SIZE /\ ~ForeignPrefix /\ ForeignVersion
               => ~last.res.ok /\ last.res.err = "InvalidHeader"
        /\ Len(blob) < SIZE \/ ForeignPrefix \/ ForeignVersion
               => last.crcs = 0 /\ last.lookups = 0 /\ last.dcalls = 0

C23_Witness ==
    /\ last.op = "decompress"
    /\ Len(blob) >= SIZE
    /\ SubSeq(blob, 1, 4) = BAD_BOTH_MAGIC
    /\ last.res.err = "InvalidMagic"
    /\ last.crcs = 0 /\ last.lookups = 0

\* the input in hand is a proper prefix of a container that compress or
\* compress_with_options returned
CutContainer == flip = -1 /\ src.by \in {"compress", "compress_with_options"}

\* length of the serialised metadata of the container that was cut
CutMetaLen == Len(MetaToBytes(src.meta))

\* the message of the error that names the section in which a container
\* cut to n bytes ends; "" where the cut is in the compressed payload
SectionCut(n) ==
    IF n < SIZE THEN "Input too short"
    ELSE IF n < SIZE + 4 THEN "Truncated: CRC32 flag set but no CRC32 data"
    ELSE IF CutMetaLen > 0 /\ n < SIZE + 6
    THEN "Truncated: metadata flag set but no metadata length"
    ELSE IF CutMetaLen > 0 /\ n < SIZE + 6 + CutMetaLen
    THEN "Truncated: metadata length exceeds payload size"
    ELSE ""

\* C24: on every proper prefix of a valid container decompress and inspect
\* return an error value, and when the cut is in the header, the checksum,
\* the metadata length or the metadata value the error is the
\* InvalidHeader that names that section.
C24_TruncationNamesSection ==
    Decoding /\ CutContainer =>
        /\ ~last.res.ok
        /\ SectionCut(Len(blob)) # "" =>
               /\ last.res.err = "InvalidHeader"
               /\ last.res.msg = SectionCut(Len(blob))

\* the parts of C24 the code keeps: decompress never accepts a proper
\* prefix, and both calls name the header and the checksum when cut there
C24_HeldPart ==
    Decoding /\ CutContainer =>
        /\ last.op = "decompress" => ~last.res.ok
        /\ Len(blob) < SIZE + 4 =>
               /\ ~last.res.ok /\ last.res.err = "InvalidHeader"
               /\ last.res.msg = SectionCut(Len(blob))
        /\ last.op = "inspect" /\ SectionCut(Len(blob)) # "" =>
               /\ ~last.res.ok /\ last.res.err = "InvalidHeader"
               /\ last.res.msg = SectionCut(Len(blob))

\* the container in hand is as compress or compress_with_options returned it
WholeContainer == flip = 0 /\ src.by \in {"compress", "compress_with_options"}

\* the header of the container in hand, and its compressed payload
HeaderInHand == [magic |-> SubSeq(blob, 1, 4), original_size |-> SubSeq(blob, 5, 12),
                 flags |-> blob[13], reserved |-> SubSeq(blob, 14, 16)]
PayloadInHand == Tail_(blob, PayloadOffset(src) + 1)

\* the registered plugins whose compress gives the payload in hand
Producers ==
    {p \in (IF src.by = "compress" THEN get_default_plugin(registry)
            ELSE list_plugins(registry)) :
        PluginCompressOf(p, src.input, FALSE) = Ok(PayloadInHand)}

\* C25: a container returned by compress or compress_with_options carries
\* the identifier of the plugin that produced its payload (the default
\* plugin for compress), the input length as original_size, the checksum
\* flag, the metadata flag exactly when the serialised metadata is not
\* empty, no other flag, zero reserved bytes, and after the header the
\* checksum of all bytes that follow; inspect on it reports that
\* original_size and crc_valid = true.
C25_ContainerWellFormed ==
    /\ (WholeContainer /\ last.op = src.by) =>
           /\ last.res.ok /\ last.res.val = blob
           /\ Len(blob) >= SIZE + 4
           /\ Producers # {}
           /\ \A p \in Producers : HeaderInHand.magic = p.magic_number
           /\ HeaderInHand.original_size = U64LE(Len(src.input))
           /\ HeaderInHand.flags =
                  HAS_CRC32 + (IF MetaToBytes(src.meta) # <<>> THEN HAS_METADATA ELSE 0)
           /\ HeaderInHand.reserved = <<0, 0, 0>>
           /\ StoredCrc(blob) = Crc32(Tail_(blob, SIZE + 5))
    /\ (WholeContainer /\ last.op = "inspect") =>
           /\ last.res.ok
           /\ last.res.val.original_size = U64LE(Len(src.input))
           /\ last.res.val.crc_valid

C25_Witness ==
    /\ WholeContainer /\ last.op = "inspect"
    /\ src.by = "compress_with_options"
    /\ src.input # <<>>
    /\ src.meta = [mtime |-> I64LE(-2), permissions |-> U32LE(420)]
    /\ HeaderInHand.magic = ZSTD_MAGIC
    /\ last.res.ok /\ last.res.val.crc_valid

\* the input in hand is a hand-made container, whole, whose identifier is
\* that of a registered plugin
ForgedForRegistered ==
    /\ flip = 0 /\ src.by = "forge"
    /\ get_plugin_by_magic(registry, HeaderInHand.magic) # {}

\* C26: decompress never returns Ok with data whose length is not the
\* declared original_size; on a container that is well formed but for a
\* declared size that is not the length of what the plugin returns, the
\* plugin is invoked and decompress fails with CorruptedData.
C26_SizeMismatchIsCorruptedData ==
    last.op = "decompress" =>
        /\ last.res.ok =>
               U64LE(Len(last.res.val.data)) = HeaderInHand.original_size
        /\ ForgedForRegistered /\ HeaderInHand.original_size # U64LE(Len(src.input))
               => /\ ~last.res.ok /\ last.res.err = "CorruptedData"
                  /\ last.dcalls = 1
        /\ ForgedForRegistered /\ HeaderInHand.original_size = U64LE(Len(src.input))
               => last.res.ok /\ last.res.val.data = src.input

C26_Witness ==
    /\ last.op = "decompress"
    /\ ForgedForRegistered
    /\ HeaderInHand.magic = ZSTD_MAGIC
    /\ HeaderInHand.flags = HAS_CRC32 + HAS_METADATA
    /\ src.input = <<>>
    /\ HeaderInHand.original_size = U64LE(1)
    /\ last.res.err = "CorruptedData"

\* the input in hand is a whole container, made by the pipeline or by
\* hand, whose header has the prefix and the version of the format
WellFormedInHand ==
    /\ flip = 0 /\ src.by # "none"
    /\ has_valid_prefix(HeaderInHand) /\ has_valid_version(HeaderInHand)

\* C27: decompress of a well-formed container invokes the plugin that is
\* registered under the identifier of the header, and no other; when no
\* plugin is registered under it, decompress fails with NotFound and
\* invokes nothing, whether or not the default plugin is registered.
C27_RoutingByIdentifier ==
    last.op = "decompress" /\ WellFormedInHand =>
        LET registered == get_plugin_by_magic(registry, HeaderInHand.magic)
        IN  /\ last.lookups = 1
            /\ registered = {} =>
                   /\ ~last.res.ok /\ last.res.err = "NotFound"
                   /\ last.dcalls = 0 /\ last.plugin = ""
            /\ registered # {} =>
                   /\ last.dcalls = 1
                   /\ last.plugin \in {p.name : p \in registered}
                   /\ last.res.err # "NotFound"

C27_Witness ==
    /\ last.op = "decompress" /\ WellFormedInHand
    /\ HeaderInHand.magic = ZSTD_MAGIC
    /\ registry.plugins = {DeflatePlugin}
    /\ last.res.err = "NotFound"
    /\ last.dcalls = 0

\* C28: decompress of a container made by compress_with_options returns
\* the input and metadata equal to the metadata supplied; when none was
\* supplied, or one with no field set, the metadata flag of the container
\* is clear and decompress returns the default metadata.
C28_MetadataSurvives ==
    WholeContainer /\ src.by = "compress_with_options" =>
        /\ has_metadata(HeaderInHand) <=> src.meta # NoMetadata
        /\ last.op = "decompress" =>
               /\ last.res.ok
               /\ last.res.val.data = src.input
               /\ last.res.val.metadata = src.meta

C28_Witness ==
    /\ WholeContainer /\ src.by = "compress_with_options"
    /\ last.op = "decompress"
    /\ src.input # <<>>
    /\ src.meta = [mtime |-> I64LE(-2), permissions |-> U32LE(420)]
    /\ last.res.ok
    /\ last.res.val.metadata = src.meta

-----------------------------------------------------------------------------
(* Cancellation token specification: the calls that threads sharing one
   AtomicCancellationToken make on it.  Every method is one SeqCst atomic
   operation on the flag, so each call is one step; `calls` records the
   calls in the order of those operations. *)

MaxCalls == 5

TokenCall(t, op, res) == [thread |-> t, op |-> op, res |-> res]

TokenInit ==
    /\ registry = NoRegistry
    /\ algorithms = COMPRESSION_ALGORITHMS
    /\ CancelIdle
    /\ PipeIdle
    /\ ExecIdle
    /\ RegIdle

\* A cancel() that inverts the flag
CancelToggles(t) ==
    /\ Len(calls) < MaxCalls
    /\ tokenCancelled' = ~tokenCancelled
    /\ calls' = Append(calls, TokenCall(t, "cancel", TRUE))
    /\ UNCHANGED <<tracker, files>>
    /\ UNCHANGED <<registry, algorithms>>
    /\ UNCHANGED pipeVars
    /\ UNCHANGED execVars
    /\ UNCHANGED regVars

\* cancel(): store true
Cancel(t) ==
    /\ Len(calls) < MaxCalls
    /\ tokenCancelled' = TRUE
    /\ calls' = Append(calls, TokenCall(t, "cancel", TRUE))
    /\ UNCHANGED <<tracker, files>>
    /\ UNCHANGED <<registry, algorithms>>
    /\ UNCHANGED pipeVars
    /\ UNCHANGED execVars
    /\ UNCHANGED regVars

\* is_cancelled(): load
IsCancelled(t) ==
    /\ Len(calls) < MaxCalls
    /\ calls' = Append(calls, TokenCall(t, "is_cancelled", tokenCancelled))
    /\ UNCHANGED <<tokenCancelled, tracker, files>>
    /\ UNCHANGED <<registry, algorithms>>
    /\ UNCHANGED pipeVars
    /\ UNCHANGED execVars
    /\ UNCHANGED regVars

\* reset(): store false
Reset(t) ==
    /\ Len(calls) < MaxCalls
    /\ tokenCancelled' = FALSE
    /\ calls' = Append(calls, TokenCall(t, "reset", FALSE))
    /\ UNCHANGED <<tracker, files>>
    /\ UNCHANGED <<registry, algorithms>>
    /\ UNCHANGED pipeVars
    /\ UNCHANGED execVars
    /\ UNCHANGED regVars

TokenNext ==
    \/ \E t \in Threads : Cancel(t)
    \/ \E t \in Threads : IsCancelled(t)
    \/ \E t \in Threads : Reset(t)

TokenSpec == TokenInit /\ [][TokenNext]_vars

\* Call i comes after a cancel() with no reset() in between
CancelledBefore(i) ==
    \E j \in 1..(i - 1) :
        /\ calls[j].op = "cancel"
        /\ \A k \in (j + 1)..(i - 1) : calls[k].op # "reset"

\* C29: the token is an idempotent latch.  Every is_cancelled(), from any
\* thread, returns true exactly when some cancel() came before it with no
\* reset() in between: a new token reads not cancelled, one or many cancel()
\* calls leave it cancelled until reset(), and after reset() it reads not
\* cancelled until it is cancelled again.
C29_TokenIsLatch ==
    \A i \in 1..Len(calls) :
        calls[i].op = "is_cancelled" => (calls[i].res <=> CancelledBefore(i))

\* Both threads cancelled, the other thread read cancelled, reset() followed,
\* and the token read not cancelled afterwards
C29_Witness ==
    /\ Len(calls) >= 5
    /\ \E i \in 1..(Len(calls) - 4) :
        /\ calls[i] = TokenCall("client", "cancel", TRUE)
        /\ calls[i + 1] = TokenCall("other", "cancel", TRUE)
        /\ calls[i + 2] = TokenCall("other", "is_cancelled", TRUE)
        /\ calls[i + 3].op = "reset"
        /\ calls[i + 4] = TokenCall("client", "is_cancelled", FALSE)

-----------------------------------------------------------------------------
(* Resource tracker specification: one ResourceTracker, the calls made on it
   and its drop, over a file system in which some files exist and some
   cannot be removed. *)

MaxTemps == 2

\* most explicit calls of cleanup_all
MaxCleanups == 2

\* Paths on which std::fs::remove_file fails
Unremovable == {"tmp2"}

TrackerInit ==
    /\ registry = NoRegistry
    /\ algorithms = COMPRESSION_ALGORITHMS
    /\ tokenCancelled = FALSE
    /\ calls = <<>>
    /\ tracker = NewTracker
    /\ \E e \in SUBSET (OutPaths \cup TempPaths), l \in SUBSET Unremovable :
        files = [NoFiles EXCEPT !.exist = e, !.locked = l]
    /\ PipeIdle
    /\ ExecIdle
    /\ RegIdle

\* The loop over temp_files in cleanup_all: each file that exists is removed,
\* and the first failure ends the call
RECURSIVE RemoveTemps(_, _, _, _)
RemoveTemps(temps, i, exist, locked) ==
    IF i > Len(temps) THEN [exist |-> exist, ok |-> TRUE]
    ELSE IF temps[i] \notin exist
         THEN RemoveTemps(temps, i + 1, exist, locked)
    ELSE IF temps[i] \in locked THEN [exist |-> exist, ok |-> FALSE]
    ELSE RemoveTemps(temps, i + 1, exist \ {temps[i]}, locked)

\* cleanup_all(): the temporary files, then the output file unless complete
CleanupAll(tr, fs) ==
    LET t == RemoveTemps(tr.temp_files, 1, fs.exist, fs.locked) IN
    IF ~t.ok THEN [exist |-> t.exist, ok |-> FALSE]
    ELSE IF tr.is_complete \/ tr.output_path = <<>>
         THEN [exist |-> t.exist, ok |-> TRUE]
    ELSE IF tr.output_path[1] \notin t.exist
         THEN [exist |-> t.exist, ok |-> TRUE]
    ELSE IF tr.output_path[1] \in fs.locked
         THEN [exist |-> t.exist, ok |-> FALSE]
    ELSE [exist |-> t.exist \ {tr.output_path[1]}, ok |-> TRUE]

\* Drop::drop: cleanup_all() only when not complete, its error ignored
DropEffect(tr, fs) ==
    IF ~tr.is_complete THEN CleanupAll(tr, fs).exist ELSE fs.exist

TrackerFrame ==
    /\ UNCHANGED <<tokenCancelled, calls>>
    /\ UNCHANGED <<registry, algorithms>>
    /\ UNCHANGED pipeVars
    /\ UNCHANGED execVars
    /\ UNCHANGED regVars

\* register_output(path): replaces the path registered before
RegisterOutput(path) ==
    /\ ~tracker.dropped
    /\ tracker' = [tracker EXCEPT !.output_path = <<path>>]
    /\ UNCHANGED files
    /\ TrackerFrame

\* register_temp_file(path)
RegisterTempFile(path) ==
    /\ ~tracker.dropped
    /\ Len(tracker.temp_files) < MaxTemps
    /\ tracker' = [tracker EXCEPT !.temp_files = Append(@, path)]
    /\ UNCHANGED files
    /\ TrackerFrame

\* mark_complete()
MarkComplete ==
    /\ ~tracker.dropped
    /\ ~tracker.is_complete
    /\ tracker' = [tracker EXCEPT !.is_complete = TRUE]
    /\ UNCHANGED files
    /\ TrackerFrame

\* The operation that owns the tracker writes a file
WriteFile(path) ==
    /\ ~tracker.dropped
    /\ path \notin files.exist
    /\ files' = [files EXCEPT !.exist = @ \cup {path}]
    /\ UNCHANGED tracker
    /\ TrackerFrame

\* An explicit call of cleanup_all()
DoCleanupAll ==
    /\ ~tracker.dropped
    /\ tracker.passes < MaxCleanups
    /\ LET c == CleanupAll(tracker, files) IN
        files' = [files EXCEPT !.exist = c.exist,
                               !.res = IF c.ok THEN "Ok" ELSE "Err"]
    /\ tracker' = [tracker EXCEPT !.passes = @ + 1]
    /\ TrackerFrame

\* The tracker goes out of scope
Drop ==
    /\ ~tracker.dropped
    /\ tracker' = [tracker EXCEPT !.dropped = TRUE,
                                  !.passes = IF tracker.is_complete THEN @ ELSE @ + 1]
    /\ files' = [files EXCEPT !.exist = DropEffect(tracker, files),
                              !.atDrop = files.exist]
    /\ TrackerFrame

TrackerNext ==
    \/ \E path \in OutPaths : RegisterOutput(path)
    \/ \E path \in TempPaths : RegisterTempFile(path)
    \/ MarkComplete
    \/ \E path \in OutPaths \cup TempPaths : WriteFile(path)
    \/ DoCleanupAll
    \/ Drop

TrackerSpec == TrackerInit /\ [][TrackerNext]_vars

RegisteredTemps == {tracker.temp_files[i] : i \in 1..Len(tracker.temp_files)}

RegisteredOutput == {tracker.output_path[i] : i \in 1..Len(tracker.output_path)}

\* The tracker was dropped and no path registered with it resists removal
DroppedRemovable ==
    /\ tracker.dropped
    /\ (RegisteredTemps \cup RegisteredOutput) \cap files.locked = {}

\* C30: once the tracker has gone out of scope, no registered temporary
\* path exists any more, whether or not mark_complete was called, and the
\* registered output path was removed exactly when mark_complete was not
\* called: it is gone without mark_complete, and with mark_complete it is
\* still there if it was there at the drop.
C30_DropRemovesTempsAlways ==
    DroppedRemovable =>
        /\ RegisteredTemps \cap files.exist = {}
        /\ \A p \in RegisteredOutput :
            IF tracker.is_complete
            THEN p \in files.atDrop => p \in files.exist
            ELSE p \notin files.exist

\* What the drop does do: without mark_complete everything registered is
\* removed; with mark_complete the drop removes nothing at all
C30_HeldPart ==
    DroppedRemovable =>
        IF tracker.is_complete
        THEN files.exist = files.atDrop
        ELSE (RegisteredTemps \cup RegisteredOutput) \cap files.exist = {}

\* A temporary file that outlives the drop of a completed tracker
C30_TempLeftBehind ==
    /\ DroppedRemovable
    /\ tracker.is_complete
    /\ RegisteredTemps \cap files.exist # {}
    /\ files.res = "none"

-----------------------------------------------------------------------------
(* Repeated compression: a call of compress or compress_with_options, and
   then a second call on the same input while the registry holds the same
   plugins. `seen` keeps the first call, `last` the second. *)

\* a second algorithm that wins the default selection, and one that ties
\* with DeflatePlugin and loses on its name
TwiceAlgorithms ==
    {<<DeflatePlugin>>, <<DeflatePlugin, SameSpeedPlugin>>, <<TwinPlugin, DeflatePlugin>>}

TwiceInit ==
    /\ registry = NoRegistry
    /\ algorithms \in TwiceAlgorithms
    /\ CancelIdle
    /\ PipeIdle
    /\ ExecIdle
    /\ RegIdle

TwiceFrame ==
    /\ UNCHANGED <<registry, algorithms, writer, hist>>
    /\ UNCHANGED <<src, blob, flip>>
    /\ UNCHANGED execVars
    /\ UNCHANGED cancelVars

\* the results of the call `op` on (input, options)
CallResults(op, input, options) ==
    IF op = "compress" THEN {Compress(registry, input).res}
    ELSE CwoResults(registry, input, options)

\* compress(input), the first call
FirstCompress ==
    /\ seen.op = "none"
    /\ \E input \in Inputs :
        seen' = [NoSeen EXCEPT !.op = "compress",
                               !.arg = [input |-> input, options |-> DefaultOptions],
                               !.res = Compress(registry, input).res,
                               !.at = registry]
    /\ last' = Outcome("none", Ok(<<>>), 0, 0, 0, FALSE)
    /\ TwiceFrame

\* compress_with_options(input, options), the first call
FirstCompressWithOptions ==
    /\ seen.op = "none"
    /\ \E input \in Inputs, options \in AllOptions :
        \E r \in CwoResults(registry, input, options) :
            seen' = [NoSeen EXCEPT !.op = "compress_with_options",
                                   !.arg = [input |-> input, options |-> options],
                                   !.res = r,
                                   !.at = registry]
    /\ last' = Outcome("none", Ok(<<>>), 0, 0, 0, FALSE)
    /\ TwiceFrame

\* the same call once more, scheduled in whatever way
CallAgain ==
    /\ seen.op # "none"
    /\ \E r \in CallResults(seen.op, seen.arg.input, seen.arg.options) :
        last' = Outcome("again", r, 0, 0, 0, FALSE)
    /\ UNCHANGED seen
    /\ TwiceFrame

\* compress_with_options(input, CompressionOptions::default()) after
\* compress(input)
CallWithDefaults ==
    /\ seen.op = "compress"
    /\ \E r \in CwoResults(registry, seen.arg.input, DefaultOptions) :
        last' = Outcome("compress_with_options", r, 0, 0, 0, FALSE)
    /\ UNCHANGED seen
    /\ TwiceFrame

\* the caller lets go of both results
Forget ==
    /\ seen.op # "none"
    /\ seen' = NoSeen
    /\ last' = Outcome("none", Ok(<<>>), 0, 0, 0, FALSE)
    /\ TwiceFrame

TwiceNext ==
    \/ InitPlugins
    \/ FirstCompress
    \/ FirstCompressWithOptions
    \/ CallAgain
    \/ CallWithDefaults
    \/ Forget

TwiceSpec == TwiceInit /\ [][TwiceNext]_vars

\* the registry holds the plugins it held at the first call
SameRegistry == list_plugins(seen.at) = list_plugins(registry)

AutoChoiceIsDefault ==
    /\ select(registry, DefaultOptions.weights) # {}
    /\ select(registry, DefaultOptions.weights) \subseteq get_default_plugin(registry)

\* C37: when the automatic choice is the default plugin, compress(d) and
\* compress_with_options(d, default options) return the same bytes.
C37_DefaultOptionsSameBytes ==
    (last.op = "compress_with_options" /\ SameRegistry /\ AutoChoiceIsDefault) =>
        /\ seen.res.ok /\ last.res.ok
        /\ last.res.val = seen.res.val

\* both calls were made with two plugins registered that score the same, the
\* default one chosen for its name
C37_Witness ==
    /\ last.op = "compress_with_options" /\ SameRegistry /\ AutoChoiceIsDefault
    /\ TwinPlugin \in list_plugins(registry)
    /\ seen.arg.input # <<>>
    /\ last.res.val = seen.res.val

\* where the automatic choice is another plugin, the two calls differ
C37_OtherChoiceDiffers ==
    /\ last.op = "compress_with_options" /\ SameRegistry
    /\ ~AutoChoiceIsDefault
    /\ seen.res.ok /\ last.res.ok
    /\ last.res.val # seen.res.val

-----------------------------------------------------------------------------
(* Properties of the resource tracker's deletion pass (checked under
   TrackerSpec) *)

\* C32: the deletion pass over the tracked paths is executed at most once
\* per tracker, over any sequence of register calls, explicit cleanup_all
\* calls and the scope exit; and a deletion that fails shows as the Err
\* result of cleanup_all, the scope exit itself completing all the same.
C32_CleanupAtMostOnce ==
    /\ tracker.passes <= 1
    /\ files.res = "Err" =>
           (RegisteredTemps \cup RegisteredOutput) \cap files.locked \cap files.exist # {}

\* What holds: the scope exit runs the pass at most once on top of the
\* explicit calls, and not at all for a completed tracker; a pass that
\* fails leaves a registered file in place and returns Err
C32_HeldPart ==
    /\ tracker.passes <= MaxCleanups + 1
    /\ (tracker.dropped /\ tracker.is_complete) => tracker.passes <= MaxCleanups
    /\ files.res = "Err" =>
           (RegisteredTemps \cup RegisteredOutput) \cap files.locked \cap files.exist # {}

\* The output file was removed by an explicit cleanup_all, written again,
\* and removed once more by the scope exit
C32_SecondPassDeletes ==
    /\ tracker.dropped
    /\ tracker.passes = 2
    /\ files.res = "Ok"
    /\ RegisteredOutput \cap files.atDrop # {}
    /\ RegisteredOutput \cap files.exist = {}
    /\ files.locked = {}

-----------------------------------------------------------------------------
(* Properties of the plugin invocation in decompress (checked under
   ContainerSpec) *)

\* decompress handed the payload to a plugin
PluginInvoked == last.op = "decompress" /\ last.dcalls = 1

\* C33: decompress runs the plugin's decompress through the executor: on an
\* isolated worker, and with an abnormal termination of the plugin returned
\* to the caller as a PluginPanic error value instead of unwinding through
\* decompress.
C33_DecompressThroughExecutor ==
    PluginInvoked =>
        /\ last.workers = 1
        /\ last.res # Panic

\* What holds: decompress calls the plugin on the caller's own thread, and
\* only a plugin of another crate panics
C33_HeldPart ==
    PluginInvoked =>
        /\ last.workers = 0
        /\ last.res = Panic => last.plugin # DeflatePlugin.name

\* A container without checksum, cut right after its header, and named for
\* the second plugin: the plugin panicked and so did decompress
C33_PanicUnwinds ==
    /\ PluginInvoked
    /\ last.res = Panic
    /\ last.plugin = "zstd"
    /\ Len(blob) = SIZE

-----------------------------------------------------------------------------
(* Metadata codec specification: FileMetadata::from_bytes applied to the
   bytes of to_bytes, and to record sequences written by others, whole or
   cut short. *)

MaxRecords == 3

\* (tag, length, value) records: the two known ones, unknown ones (one
\* empty, one whose value looks like a record), and known tags with a
\* length that is not theirs
RecordPool ==
    {<<1, 8>> \o I64LE(-2), <<2, 4>> \o U32LE(420), <<1, 8>> \o I64LE(5),
     <<3, 0>>, <<9, 2, 1, 8>>, <<1, 4, 0, 0, 0, 0>>, <<2, 0>>}

RecordLists == SeqsUpTo(RecordPool, MaxRecords)

RECURSIVE Flatten(_)
Flatten(recs) == IF recs = <<>> THEN <<>> ELSE Head(recs) \o Flatten(Tail(recs))

\* FileMetadata values: each field set or not
MetaValues ==
    {[mtime |-> t, permissions |-> q] : t \in {<<>>, I64LE(-2), I64LE(5)},
                                        q \in {<<>>, U32LE(420)}}

MetaInit ==
    /\ registry = NoRegistry
    /\ algorithms = COMPRESSION_ALGORITHMS
    /\ CancelIdle
    /\ PipeIdle
    /\ ExecIdle
    /\ RegIdle

MetaFrame ==
    /\ UNCHANGED <<registry, algorithms, writer, hist>>
    /\ UNCHANGED <<src, flip>>
    /\ UNCHANGED execVars
    /\ UNCHANGED cancelVars

\* m.to_bytes()
EncodeMetadata ==
    /\ seen.op = "none"
    /\ \E m \in MetaValues :
        /\ blob' = MetaToBytes(m)
        /\ seen' = [NoSeen EXCEPT !.op = "to_bytes", !.arg = [m |-> m]]
    /\ UNCHANGED last
    /\ MetaFrame

\* a metadata block arrives that another writer made: whole records, of
\* which the first `cut` bytes arrive
ReceiveRecords ==
    /\ seen.op = "none"
    /\ \E recs \in RecordLists :
        \E cut \in 0..Len(Flatten(recs)) :
            /\ blob' = SubSeq(Flatten(recs), 1, cut)
            /\ seen' = [NoSeen EXCEPT !.op = "records", !.arg = [recs |-> recs, cut |-> cut]]
    /\ UNCHANGED last
    /\ MetaFrame

\* FileMetadata::from_bytes(blob)
DecodeMetadata ==
    /\ seen.op # "none"
    /\ last.op = "none"
    /\ last' = Outcome("from_bytes", MetaFromBytes(blob), 0, 0, 0, FALSE)
    /\ UNCHANGED <<seen, blob>>
    /\ MetaFrame

\* the block is dropped
DropMetadata ==
    /\ seen.op # "none"
    /\ seen' = NoSeen
    /\ blob' = <<>>
    /\ last' = Outcome("none", Ok(<<>>), 0, 0, 0, FALSE)
    /\ MetaFrame

MetaNext ==
    \/ EncodeMetadata
    \/ ReceiveRecords
    \/ DecodeMetadata
    \/ DropMetadata

MetaSpec == MetaInit /\ [][MetaNext]_vars

\* the positions at which a record of recs ends
RECURSIVE Boundaries(_)
Boundaries(recs) ==
    IF recs = <<>> THEN {0}
    ELSE Boundaries(SubSeq(recs, 1, Len(recs) - 1)) \cup {Len(Flatten(recs))}

\* the records that arrived whole
WholeRecords(recs, cut) ==
    SubSeq(recs, 1, CHOOSE n \in 0..Len(recs) :
                        /\ Len(Flatten(SubSeq(recs, 1, n))) <= cut
                        /\ \A k \in (n + 1)..Len(recs) :
                               Len(Flatten(SubSeq(recs, 1, k))) > cut)

KnownTag(rec) == rec[1] \in {1, 2}
RightLength(rec) == (rec[1] = 1 => rec[2] = 8) /\ (rec[1] = 2 => rec[2] = 4)

\* the value of the last record with this tag, if any
LastValue(recs, tag) ==
    LET at == {i \in 1..Len(recs) : recs[i][1] = tag}
    IN  IF at = {} THEN <<>>
        ELSE Tail_(recs[CHOOSE i \in at : \A j \in at : j <= i], 3)

Decoding34 == seen.op = "records" /\ last.op = "from_bytes"

\* C34: the decoder reads records until its input is exhausted.  For whole
\* records of the right lengths the result is made of the known records
\* alone, so that records with unknown tags do not change it; a block that
\* ends inside a record (in its value, or after a lone tag byte) gives
\* InvalidMetadata; and from_bytes(to_bytes(m)) = m for every m.
C34_MetadataDecoder ==
    /\ (seen.op = "to_bytes" /\ last.op = "from_bytes") => last.res = Ok(seen.arg.m)
    /\ Decoding34 =>
        LET whole == WholeRecords(seen.arg.recs, seen.arg.cut)
            known == SelectSeq(whole, KnownTag)
        IN  /\ seen.arg.cut \notin Boundaries(seen.arg.recs)
                => last.res = Err("InvalidMetadata")
            /\ (seen.arg.cut \in Boundaries(seen.arg.recs)
                    /\ \A i \in 1..Len(whole) : RightLength(whole[i]))
                => /\ last.res = Ok([mtime |-> LastValue(whole, 1),
                                     permissions |-> LastValue(whole, 2)])
                   /\ last.res = MetaFromBytes(Flatten(known))

\* an unknown record between two known ones was skipped
C34_Witness ==
    /\ Decoding34
    /\ seen.arg.recs = <<(<<1, 8>> \o I64LE(-2)), <<9, 2, 1, 8>>, (<<2, 4>> \o U32LE(420))>>
    /\ seen.arg.cut = Len(blob)
    /\ Len(blob) = 20
    /\ last.res = Ok([mtime |-> I64LE(-2), permissions |-> U32LE(420)])

\* a block that ends after a lone tag byte
C34_LoneTag ==
    /\ Decoding34
    /\ Len(seen.arg.recs) = 2
    /\ seen.arg.cut = Len(seen.arg.recs[1]) + 1
    /\ last.res = Err("InvalidMetadata")

-----------------------------------------------------------------------------
(* Properties of the order of validation in decompress (checked under
   ContainerSpec) *)

\* the header of the bytes in hand parses
HeaderParses == Len(blob) >= SIZE /\ from_bytes(SubSeq(blob, 1, SIZE)).ok

\* the checksum flag is set and the stored checksum is not the computed one
ChecksumFails ==
    /\ HeaderParses
    /\ has_crc32(HeaderInHand)
    /\ Len(blob) >= SIZE + 4
    /\ StoredCrc(blob) # ComputedCrc(blob)

\* the checksum section is there, if the flag asks for one
ChecksumSectionThere == HeaderParses /\ (has_crc32(HeaderInHand) => Len(blob) >= SIZE + 4)

\* the metadata section does not parse
MetadataMalformed ==
    /\ ChecksumSectionThere
    /\ ~ParseMetadata(blob, HeaderInHand,
                      IF has_crc32(HeaderInHand) THEN SIZE + 4 ELSE SIZE).ok

\* the identifier of the header names no registered plugin
Unregistered == HeaderParses /\ get_plugin_by_magic(registry, HeaderInHand.magic) = {}

\* C35: decompress validates header, checksum, metadata, plugin lookup,
\* plugin invocation and size in this order.  A checksum that does not
\* match gives CrcMismatch whatever the metadata and the identifier are, and
\* no plugin is invoked on such bytes; a header that does not parse ends the
\* call before any checksum is computed; malformed metadata ends it before
\* the registry is consulted; a missing plugin ends it before any plugin
\* runs; and the size test follows the plugin's run.
C35_ValidationOrder ==
    last.op = "decompress" =>
        /\ ChecksumFails =>
               /\ last.res = Err("CrcMismatch")
               /\ last.lookups = 0 /\ last.dcalls = 0
        /\ ~HeaderParses => last.crcs = 0 /\ last.lookups = 0 /\ last.dcalls = 0
        /\ (MetadataMalformed /\ ~ChecksumFails) =>
               /\ last.res.err \in {"InvalidHeader", "InvalidMetadata"}
               /\ last.lookups = 0 /\ last.dcalls = 0
        /\ last.res.err = "NotFound" => last.lookups = 1 /\ last.dcalls = 0
        /\ last.dcalls = 1 =>
               /\ last.lookups = 1
               /\ has_crc32(HeaderInHand) => last.crcs = 1 /\ StoredCrc(blob) = ComputedCrc(blob)
        /\ last.res.err = "CorruptedData" => last.dcalls = 1

\* a container cut inside its metadata, for a plugin that is not
\* registered: three tests would fail, the checksum is the one reported
C35_Witness ==
    /\ last.op = "decompress"
    /\ ChecksumFails /\ MetadataMalformed /\ Unregistered
    /\ registry.initialized
    /\ last.res = Err("CrcMismatch")

\* without a checksum, malformed metadata is reported and not the missing
\* plugin
C35_MetadataBeforeLookup ==
    /\ last.op = "decompress"
    /\ MetadataMalformed /\ Unregistered /\ ~has_crc32(HeaderInHand)
    /\ registry.initialized
    /\ last.res.err = "InvalidHeader"

-----------------------------------------------------------------------------
(* Reserved header bytes: the pipeline over containers whose three reserved
   bytes are whatever their writer put there. *)

ReservedChoices == {<<0, 0, 0>>, <<1, 0, 0>>, <<0, 0, 255>>}

\* a hand-made container with the given reserved bytes; no checksum covers
\* the header
ForgedReserved(magic, input, flags, reserved) ==
    LET c == Forged(magic, input, Len(input), flags)
    IN  SubSeq(c, 1, SIZE - 3) \o reserved \o Tail_(c, SIZE + 1)

ForgeReserved ==
    /\ blob = <<>> /\ flip = 0
    /\ \E magic \in ForgedMagics, input \in Inputs, flags \in ForgedFlags,
          reserved \in ReservedChoices :
            /\ blob' = ForgedReserved(magic, input, flags, reserved)
            /\ src' = [input |-> input,
                       meta |-> IF flags >= HAS_METADATA THEN ForgedMeta ELSE NoMetadata,
                       by |-> "forge"]
    /\ flip' = 0
    /\ last' = Outcome("forge", Ok(<<>>), 0, 0, 0, FALSE)
    /\ UNCHANGED registry
    /\ UNCHANGED execVars
    /\ UNCHANGED regVars
    /\ UNCHANGED cancelVars

HeaderNext ==
    \/ InitPlugins
    \/ Discard
    \/ DoCompress
    \/ ForgeReserved
    \/ DoDecompress
    \/ DoInspect

HeaderSpec == ContainerInit /\ [][HeaderNext]_vars

ReservedInHand == SubSeq(blob, SIZE - 2, SIZE)

\* C36: the three reserved bytes are zero in every header that compress
\* writes, and in every header that from_bytes accepts, so that decompress
\* and inspect succeed only on containers whose reserved bytes are zero.
C36_ReservedZero ==
    /\ (src.by = "compress" /\ blob # <<>>) => ReservedInHand = <<0, 0, 0>>
    /\ (last.op \in {"decompress", "inspect"} /\ last.res.ok)
           => ReservedInHand = <<0, 0, 0>>

\* What holds: compress writes zeros, and the reserved bytes make no
\* difference to what decompress and inspect return
C36_HeldPart ==
    /\ (src.by = "compress" /\ blob # <<>>) => ReservedInHand = <<0, 0, 0>>
    /\ last.op = "decompress" =>
           last.res = Decompress(registry, SubSeq(blob, 1, SIZE - 3) \o <<0, 0, 0>>
                                               \o Tail_(blob, SIZE + 1)).res
    /\ last.op = "inspect" =>
           last.res = Inspect(registry, SubSeq(blob, 1, SIZE - 3) \o <<0, 0, 0>>
                                            \o Tail_(blob, SIZE + 1)).res

\* decompress returned the data of a container whose reserved bytes are not
\* zero
C36_NonZeroAccepted ==
    /\ last.op = "decompress" /\ last.res.ok
    /\ ReservedInHand = <<0, 0, 255>>
    /\ src.input # <<>>
    /\ last.res.val.data = src.input

-----------------------------------------------------------------------------
(* decompress and inspect on the same bytes (checked under ContainerSpec) *)

\* what inspect reports, given that decompress of the same bytes returned d
InspectAgrees(i, d) ==
    /\ i.ok
    /\ i.val.crc_valid
    /\ i.val.original_size = U64LE(Len(d.val.data))
    /\ i.val.metadata = d.val.metadata

\* C38: on every input on which decompress returns Ok, inspect returns Ok
\* with crc_valid = true, with original_size the length of the decompressed
\* data, and with the same metadata.
C38_DecompressOkImpliesCrcValid ==
    /\ (last.op = "decompress" /\ last.res.ok)
           => InspectAgrees(Inspect(registry, blob).res, last.res)
    /\ (last.op = "inspect" /\ Decompress(registry, blob).res.ok)
           => InspectAgrees(last.res, Decompress(registry, blob).res)

\* What holds: inspect succeeds where decompress does, with the size and
\* the metadata of the decompressed data, and with crc_valid saying whether
\* the container carries a checksum
C38_HeldPart ==
    (last.op = "inspect" /\ Decompress(registry, blob).res.ok) =>
        LET d == Decompress(registry, blob).res
        IN  /\ last.res.ok
            /\ last.res.val.crc_valid = has_crc32(HeaderInHand)
            /\ last.res.val.original_size = U64LE(Len(d.val.data))
            /\ last.res.val.metadata = d.val.metadata

\* inspect reports crc_valid = false for a container without checksum that
\* decompress accepts
C38_NoChecksumReadsInvalid ==
    /\ last.op = "inspect" /\ last.res.ok
    /\ ~last.res.val.crc_valid
    /\ ~has_crc32(HeaderInHand)
    /\ src.input # <<>>
    /\ Decompress(registry, blob).res = Ok([data |-> src.input, metadata |-> src.meta])

-----------------------------------------------------------------------------
(* A failed init (InitFailSpec): the lists of RegSpec and lists in which a
   duplicate is enumerated before the rejected descriptor *)

FailLists ==
    AlgorithmLists
    \cup {<<DeflatePlugin, ShadowPlugin, d>> : d \in RejectedPool}
    \cup {<<ShadowPlugin, Lz4Plugin, DeflatePlugin, d>> : d \in RejectedPool}

InitFailInit ==
    /\ registry = NoRegistry
    /\ algorithms \in FailLists
    /\ CancelIdle
    /\ PipeIdle
    /\ ExecIdle
    /\ RegIdle

InitFailNext ==
    \/ \E t \in Threads : InitAcquire(t)
    \/ \E t \in Threads : InitClear(t)
    \/ \E t \in Threads : InitRegister(t)
    \/ \E t \in Threads : InitFinish(t)
    \/ ListPlugins

InitFailSpec == InitFailInit /\ [][InitFailNext]_vars

\* the index of the descriptor at which register returns the error, one
\* past the end if it returns none
FailedAt ==
    SetMin({i \in 1..Len(algorithms) : ~Register(NoRegistry, algorithms[i]).res.ok}
           \cup {Len(algorithms) + 1})

\* an init has returned an error and none is in progress: the registry
\* exists and is not marked initialized
InitFailed == WriteUnlocked /\ registry.present /\ ~registry.initialized

\* the descriptors enumerated before index k that meet the validity
\* constraints and are the first with their identifier
ValidBefore(k) ==
    {algorithms[i] : i \in {j \in 1..(k - 1) :
        /\ ~StructurallyInvalid(algorithms[j])
        /\ algorithms[j] = FirstEnumerated(algorithms[j].magic_number)}}

\* the descriptors enumerated before index k that register stores
StoredBefore(k) ==
    {algorithms[i] : i \in {j \in 1..(k - 1) :
        algorithms[j] = FirstEnumerated(algorithms[j].magic_number)}}

\* C39: after an init that failed at the k-th plugin the registry holds
\* exactly the valid, non-duplicate plugins enumerated before it; in every
\* state every stored entry meets the descriptor validity constraints and is
\* the entry found under its own identifier; and a registry left by a
\* successful init holds the full set.
C39_FailedInitLeavesValidPrefix ==
    /\ InitFailed => registry.plugins = ValidBefore(FailedAt)
    /\ \A p \in registry.plugins :
           /\ ~StructurallyInvalid(p)
           /\ RegistryGet(registry, p.magic_number) = {p}
    /\ (WriteUnlocked /\ registry.initialized) =>
           registry.plugins = StoredBefore(Len(algorithms) + 1)

\* What holds: the same with "valid" read as "accepted by register"
C39_HeldPart ==
    /\ InitFailed =>
           /\ FailedAt <= Len(algorithms)
           /\ registry.plugins = StoredBefore(FailedAt)
    /\ \A p \in registry.plugins :
           /\ ValidDescriptor(p)
           /\ RegistryGet(registry, p.magic_number) = {p}
    /\ (WriteUnlocked /\ registry.initialized) =>
           /\ FailedAt = Len(algorithms) + 1
           /\ registry.plugins = StoredBefore(Len(algorithms) + 1)

\* a failed init has left a descriptor with a ratio that is not a number in
\* the registry, a duplicate having been skipped before the failure
C39_NaNLeftBehind ==
    /\ InitFailed
    /\ seen.op = "init" /\ seen.res = Err("InvalidMetadata")
    /\ FailedAt = 4
    /\ registry.plugins = {ShadowPlugin, Lz4Plugin}
    /\ StructurallyInvalid(Lz4Plugin)

\* a second init after the failed one has failed in the same way, nothing
\* having been cleared
C39_FailsAgain ==
    /\ InitFailed
    /\ seen.op = "init" /\ ~seen.res.ok
    /\ seen.at.present /\ ~seen.at.initialized
    /\ seen.at.plugins = registry.plugins
    /\ registry.plugins = {DeflatePlugin}
    /\ FailedAt = 3

-----------------------------------------------------------------------------
(* Two calls of run_with_timeout_v2 at the same time (PairSpec). Each call's
   locals are kept per call; the flags and the channels live in a heap, so
   that which flag a worker holds is a matter of the reference it was
   given. cancel_flag and chan are the heaps, run and worker are indexed by
   the call. *)

Runs == {1, 2}

\* the inputs of the two calls' operations, which go through the same plugin
PairInputs == {7, 8}

\* Arc::new(AtomicBool::new(false)): a new cell; one flag for the process
NewFlagShared(heap) == 1
NewFlag(heap) == Len(heap) + 1

\* channel::bounded(1): a new channel
NewChannel(heap) == Len(heap) + 1

NoRunOf == [pc |-> "idle", timeout |-> 0, result |-> Err("none"), deadline |-> FALSE,
            flag |-> 0, ch |-> 0]
NoWorkerOf == [pc |-> "none", op |-> "none", chunks |-> 0, input |-> 0,
               result |-> Err("none"), flag |-> 0, guard |-> 0, tx |-> 0,
               saw |-> FALSE]

PairInit ==
    /\ registry = NoRegistry
    /\ algorithms = COMPRESSION_ALGORITHMS
    /\ run = [r \in Runs |-> NoRunOf]
    /\ worker = [r \in Runs |-> NoWorkerOf]
    /\ cancel_flag = <<>>
    /\ chan = <<>>
    /\ token = NoToken
    /\ PipeIdle
    /\ RegIdle
    /\ CancelIdle

PairFrame ==
    /\ UNCHANGED <<registry, token>>
    /\ UNCHANGED pipeVars
    /\ UNCHANGED regVars
    /\ UNCHANGED cancelVars

\* run_with_timeout_v2(timeout, operation) is called: the flag and its two
\* clones, the channel, the spawn
StartRunOf(r) ==
    /\ run[r].pc = "idle"
    /\ \E timeout \in Timeouts, op \in OpKinds, n \in 0..MaxChunks, input \in PairInputs :
        /\ op # "polling" => n = 0
        /\ run' = [run EXCEPT ![r] = [pc |-> "waiting", timeout |-> timeout,
                                      result |-> Err("none"), deadline |-> FALSE,
                                      flag |-> NewFlag(cancel_flag),
                                      ch |-> NewChannel(chan)]]
        /\ worker' = [worker EXCEPT ![r] = [pc |-> "spawned", op |-> op, chunks |-> n,
                                            input |-> input, result |-> Err("none"),
                                            flag |-> NewFlag(cancel_flag),
                                            guard |-> NewFlag(cancel_flag),
                                            tx |-> NewChannel(chan), saw |-> FALSE]]
    /\ cancel_flag' = [Append(cancel_flag, FALSE) EXCEPT ![NewFlag(cancel_flag)] = FALSE]
    /\ chan' = Append(chan, [slot |-> <<>>, tx |-> TRUE, rx |-> TRUE])
    /\ PairFrame

\* the worker thread starts: the guard is created, the operation is entered
WorkerStartOf(r) ==
    /\ worker[r].pc = "spawned"
    /\ worker' = [worker EXCEPT ![r].pc = IF worker[r].op = "polling" THEN "check" ELSE "op"]
    /\ UNCHANGED <<run, cancel_flag, chan>>
    /\ PairFrame

\* an operation that does not poll returns its value or its error
OpReturnOf(r) ==
    /\ worker[r].pc = "op"
    /\ worker[r].op \in {"value", "error"}
    /\ worker' = [worker EXCEPT ![r].pc = "send",
                                ![r].result = IF worker[r].op = "value"
                                              THEN Ok(<<worker[r].input>>)
                                              ELSE Err("OperationFailed")]
    /\ UNCHANGED <<run, cancel_flag, chan>>
    /\ PairFrame

\* the operation panics: the worker unwinds without sending
OpPanicOf(r) ==
    /\ worker[r].pc = "op"
    /\ worker[r].op = "panic"
    /\ worker' = [worker EXCEPT ![r].pc = "dropguard"]
    /\ UNCHANGED <<run, cancel_flag, chan>>
    /\ PairFrame

\* DeflatePlugin::compress: cancel_flag.load at the start and at the head of
\* the loop, through the reference the operation was called with
OpPollOf(r) ==
    /\ worker[r].pc \in {"check", "loop"}
    /\ worker' = IF cancel_flag[worker[r].flag]
                 THEN [worker EXCEPT ![r].pc = "send", ![r].result = Err("Cancelled"),
                                     ![r].saw = TRUE]
                 ELSE [worker EXCEPT ![r].pc = IF worker[r].pc = "check" THEN "loop"
                                               ELSE "read"]
    /\ UNCHANGED <<run, cancel_flag, chan>>
    /\ PairFrame

\* DeflatePlugin::compress: encoder.read of one chunk, or of 0 bytes at the end
OpReadOf(r) ==
    /\ worker[r].pc = "read"
    /\ worker' = IF worker[r].chunks = 0
                 THEN [worker EXCEPT ![r].pc = "send",
                                     ![r].result = Ok(<<worker[r].input>>)]
                 ELSE [worker EXCEPT ![r].pc = "loop", ![r].chunks = @ - 1]
    /\ UNCHANGED <<run, cancel_flag, chan>>
    /\ PairFrame

\* let _ = tx.send(result), into the channel whose sender the closure holds
WorkerSendOf(r) ==
    /\ worker[r].pc = "send"
    /\ worker' = [worker EXCEPT ![r].pc = "dropguard"]
    /\ chan' = IF chan[worker[r].tx].rx
               THEN [chan EXCEPT ![worker[r].tx].slot = <<worker[r].result>>]
               ELSE chan
    /\ UNCHANGED <<run, cancel_flag>>
    /\ PairFrame

\* TimeoutGuard::drop: a store of true through the guard's reference
WorkerDropGuardOf(r) ==
    /\ worker[r].pc = "dropguard"
    /\ cancel_flag' = [cancel_flag EXCEPT ![worker[r].guard] = TRUE]
    /\ worker' = [worker EXCEPT ![r].pc = "droptx"]
    /\ UNCHANGED <<run, chan>>
    /\ PairFrame

\* the closure's captures are dropped: the sender disconnects
WorkerDropTxOf(r) ==
    /\ worker[r].pc = "droptx"
    /\ chan' = [chan EXCEPT ![worker[r].tx].tx = FALSE]
    /\ worker' = [worker EXCEPT ![r].pc = "exited"]
    /\ UNCHANGED <<run, cancel_flag>>
    /\ PairFrame

\* wall-clock time reaches the deadline of the call's receive
DeadlineElapsesOf(r) ==
    /\ run[r].pc = "waiting"
    /\ ~NoDeadline(run[r].timeout)
    /\ ~run[r].deadline
    /\ run' = [run EXCEPT ![r].deadline = TRUE]
    /\ UNCHANGED <<worker, cancel_flag, chan>>
    /\ PairFrame

\* rx.recv_timeout on the call's own receiver returns; rx is dropped
CallerReturnOf(r) ==
    /\ run[r].pc = "waiting"
    /\ RecvOutcome(chan[run[r].ch], run[r].deadline).returns
    /\ run' = [run EXCEPT ![r].pc = "returned",
                          ![r].result = RecvOutcome(chan[run[r].ch], run[r].deadline).result]
    /\ chan' = [chan EXCEPT ![run[r].ch].slot = <<>>, ![run[r].ch].rx = FALSE]
    /\ UNCHANGED <<worker, cancel_flag>>
    /\ PairFrame

PairNext ==
    \/ \E r \in Runs : StartRunOf(r)
    \/ \E r \in Runs : WorkerStartOf(r)
    \/ \E r \in Runs : OpReturnOf(r)
    \/ \E r \in Runs : OpPanicOf(r)
    \/ \E r \in Runs : OpPollOf(r)
    \/ \E r \in Runs : OpReadOf(r)
    \/ \E r \in Runs : WorkerSendOf(r)
    \/ \E r \in Runs : WorkerDropGuardOf(r)
    \/ \E r \in Runs : WorkerDropTxOf(r)
    \/ \E r \in Runs : DeadlineElapsesOf(r)
    \/ \E r \in Runs : CallerReturnOf(r)

PairSpec == PairInit /\ [][PairNext]_vars

\* the worker of call r is inside operation(cancel_flag_thread)
InOperationOf(r) == worker[r].pc \in {"op", "check", "loop", "read"}

\* what the caller of r can be handed by r's own operation, worker and
\* deadline
OwnOutcome(r, res) ==
    \/ res = Ok(<<worker[r].input>>) /\ worker[r].op \in {"value", "polling"}
    \/ res = Err("OperationFailed") /\ worker[r].op = "error"
    \/ res = Err("PluginPanic") /\ worker[r].op = "panic"
    \/ res = Err("Timeout") /\ run[r].timeout # 0 /\ run[r].deadline

\* C40: concurrent runs are isolated. Two runs hold different flags and
\* different channels, each of one slot; the flag an operation observes is
\* not set while that operation runs, whatever the other run does (timeout,
\* completion, panic); a channel holds only the result of the run it belongs
\* to; and a caller is handed only what its own run produced.
C40_RunsIsolated ==
    /\ \A r, q \in Runs :
           (r # q /\ run[r].pc # "idle" /\ run[q].pc # "idle") =>
               /\ run[r].flag # run[q].flag
               /\ run[r].ch # run[q].ch
    /\ \A r \in Runs :
           run[r].pc # "idle" =>
               /\ worker[r].flag = run[r].flag /\ worker[r].guard = run[r].flag
               /\ worker[r].tx = run[r].ch
               /\ Len(chan[run[r].ch].slot) <= 1
               /\ InOperationOf(r) => ~cancel_flag[worker[r].flag]
               /\ ~worker[r].saw
               /\ chan[run[r].ch].slot # <<>> =>
                      /\ chan[run[r].ch].slot[1] = worker[r].result
                      /\ OwnOutcome(r, worker[r].result)
               /\ run[r].pc = "returned" => OwnOutcome(r, run[r].result)

\* one run has timed out with its operation still polling its flag; the other
\* has panicked, dropped its guard and been reported to its own caller
C40_Witness ==
    /\ run[1].pc = "returned" /\ run[1].result = Err("Timeout")
    /\ worker[1].op = "polling" /\ worker[1].pc = "loop"
    /\ worker[2].op = "panic" /\ worker[2].pc = "exited"
    /\ run[2].pc = "returned" /\ run[2].result = Err("PluginPanic")
    /\ cancel_flag[worker[2].guard]
    /\ ~cancel_flag[worker[1].flag]

\* both runs have completed with the values of their own inputs
C40_BothComplete ==
    /\ run[1].pc = "returned" /\ run[1].result = Ok(<<7>>)
    /\ run[2].pc = "returned" /\ run[2].result = Ok(<<8>>)
    /\ worker[1].op = "polling" /\ worker[2].op = "polling"

====
